---- MODULE Spec2Model ----
(***************************************************************************)
(* A model of the VVAS Razorpay backend (src/unnamed/part_000, the server  *)
(* revision of lines 1397-2620): the signed thank-you contract mechanism   *)
(* (signer, in-memory TTL store, GET /api/thank-you-contract and           *)
(* POST /verify-payment) and the offers engine (admin operations and       *)
(* validateOfferForPlan).                                                  *)
(*                                                                         *)
(* Time is in milliseconds, as in the code.  The clock counts from the     *)
(* model's epoch base (real epoch 1 700 000 000 000 ms), so that the       *)
(* numbers stay small; a timestamp literal carries its text (whose length  *)
(* the handler inspects) and the number Number() reads from it, relative   *)
(* to that base.  HMAC-SHA-256 is modelled as a collision-free keyed       *)
(* term; base64url of a 32-byte digest is 43 characters long.              *)
(***************************************************************************)
EXTENDS Integers, Sequences, FiniteSets, TLC

VARIABLES
    now,                      \* Date.now(), ms since the epoch base
    THANKYOU_SIG_SECRET,      \* process.env.THANKYOU_SIG_SECRET ("" = unset)
    N8N_PAYMENT_WEBHOOK_URL,  \* process.env.N8N_PAYMENT_WEBHOOK_URL ("" = unset)
    thankYouContractStore,    \* Map: key -> [storedAt, contract]
    inflight,                 \* /verify-payment requests suspended at an await
    lastResp,                 \* the HTTP response sent by the last step, if any
    webhookOut,               \* the webhook call dispatched by the last step, if any
    redeemed,                 \* history: what the holder of a link has received
    offers                    \* the content of offers.json (array of offer records)

vars == <<now, THANKYOU_SIG_SECRET, N8N_PAYMENT_WEBHOOK_URL, thankYouContractStore,
          inflight, lastResp, webhookOut, redeemed, offers>>

----------------------------------------------------------------------------
(* Bounds of the model *)

\* The clock advances at most this many minutes past its start.
MaxElapsedMinutes == 32
\* /verify-payment requests that may be suspended at an await at once.
MaxInFlight == 1

----------------------------------------------------------------------------
(* Time *)

Minute == 60 * 1000
StartNow == 20 * Minute
TickSteps == {15 * Minute, 16 * Minute}

Abs(x) == IF x < 0 THEN 0 - x ELSE x

\* const THANKYOU_CONTRACT_TTL_MS = 30 * 60 * 1000
THANKYOU_CONTRACT_TTL_MS == 30 * 60 * 1000
\* the literal 15 * 60 * 1000 of the freshness check
THANKYOU_TS_WINDOW_MS == 15 * 60 * 1000

----------------------------------------------------------------------------
(* Timestamp literals: the text of the ts query parameter *)

RECURSIVE ZeroPad(_, _)
ZeroPad(s, w) == IF Len(s) >= w THEN s ELSE ZeroPad("0" \o s, w)

\* Date.now().toString(): a 13-character millisecond literal
MsLiteral(t) == [txt |-> "170000" \o ZeroPad(ToString(t), 7), num |-> t, finite |-> TRUE]
\* a 10-character second literal of the same instant
SecLiteral(t) == [txt |-> "170000" \o ZeroPad(ToString(t \div 1000), 4),
                  num |-> t \div 1000, finite |-> TRUE]
\* the second literal with a blank before and two after: 13 characters, which
\* Number() reads as the same number
PaddedSecLiteral(t) == [txt |-> " 170000" \o ZeroPad(ToString(t \div 1000), 4) \o "  ",
                        num |-> t \div 1000, finite |-> TRUE]
\* a literal Number() reads as NaN
NaNLiteral == [txt |-> "abc", num |-> 0, finite |-> FALSE]
\* the parameter is absent: String(req.query.ts || "")
NoLiteral == [txt |-> "", num |-> 0, finite |-> TRUE]

----------------------------------------------------------------------------
(* THANK-YOU SIGNATURE HELPERS (v1) *)

\* crypto.createHmac("sha256", key).update(msg).digest(), then base64url
base64urlHmac(key, msg) == [len |-> 43, mac |-> <<key, msg>>]

NoSig == [len |-> 0, mac |-> <<"", "">>]
JunkSig == [len |-> 43, mac |-> <<"", "junk">>]
ShortSig == [len |-> 10, mac |-> <<"", "junk">>]

CanonicalString(order_id, payment_id, ts) ==
    "v1|order_id=" \o order_id \o "|payment_id=" \o payment_id \o "|ts=" \o ts.txt

\* (variant) the guard left out: an unset secret signs as an empty key
signThankYouV1NeverThrows(secret) == FALSE

\* if (!THANKYOU_SIG_SECRET) throw new Error(...)
signThankYouV1Throws(secret) == secret = ""

signThankYouV1(secret, order_id, payment_id, ts) ==
    base64urlHmac(secret, CanonicalString(order_id, payment_id, ts))

\* (variant) only the lengths are compared
timingSafeEqualLengthOnly(a, b) == a.len = b.len

timingSafeEqualStr(a, b) ==
    IF a.len # b.len THEN FALSE ELSE a.mac = b.mac

----------------------------------------------------------------------------
(* THANK-YOU CONTRACT STORE (v1) - in-memory with TTL *)

NoContract == [version |-> "none"]

makeThankYouKey(order_id, payment_id) ==
    "v1|order_id=" \o order_id \o "|payment_id=" \o payment_id

\* (variant) an entry is purged as soon as it is TTL old
PurgeConditionInclusive(nowv, entry) ==
    entry.storedAt = 0 \/ nowv - entry.storedAt >= THANKYOU_CONTRACT_TTL_MS

\* (variant) entries live for ten minutes, less than the window of a link
PurgeConditionTenMinutes(nowv, entry) ==
    entry.storedAt = 0 \/ nowv - entry.storedAt > 10 * 60 * 1000

\* if (!v?.storedAt || now - v.storedAt > THANKYOU_CONTRACT_TTL_MS) delete
PurgeCondition(nowv, entry) ==
    entry.storedAt = 0 \/ nowv - entry.storedAt > THANKYOU_CONTRACT_TTL_MS

\* (variant) entries are left to a background timer
purgeOnTimer(store, nowv) == store

purgeThankYouContracts(store, nowv) ==
    [k \in {x \in DOMAIN store : ~PurgeCondition(nowv, store[x])} |-> store[k]]

\* (variant) an overwrite keeps the time of the first insertion
storeKeepingFirstTime(store, nowv, order_id, payment_id, contract) ==
    LET key == makeThankYouKey(order_id, payment_id)
    IN  [k \in (DOMAIN store) \cup {key} |->
            IF k = key
            THEN [storedAt |-> IF key \in DOMAIN store THEN store[key].storedAt ELSE nowv,
                  contract |-> contract]
            ELSE store[k]]

\* (variant) the insert replaces the whole map
storeAlone(store, nowv, order_id, payment_id, contract) ==
    [k \in {makeThankYouKey(order_id, payment_id)} |->
        [storedAt |-> nowv, contract |-> contract]]

storeThankYouContract(store, nowv, order_id, payment_id, contract) ==
    LET purged == purgeThankYouContracts(store, nowv)
        key == makeThankYouKey(order_id, payment_id)
    IN  [k \in (DOMAIN purged) \cup {key} |->
            IF k = key THEN [storedAt |-> nowv, contract |-> contract]
            ELSE purged[k]]

\* the value getThankYouContract returns: found?.contract || null
getThankYouContract(store, nowv, order_id, payment_id) ==
    LET purged == purgeThankYouContracts(store, nowv)
        key == makeThankYouKey(order_id, payment_id)
    IN  IF key \in DOMAIN purged THEN purged[key].contract ELSE NoContract

\* (variant) a lookup consumes the entry it returns
StoreAfterGetConsuming(store, nowv, order_id, payment_id) ==
    LET purged == purgeThankYouContracts(store, nowv)
    IN  [k \in (DOMAIN purged) \ {makeThankYouKey(order_id, payment_id)} |-> purged[k]]

\* the store getThankYouContract leaves behind: the purge, and no other change
StoreAfterGet(store, nowv, order_id, payment_id) ==
    purgeThankYouContracts(store, nowv)

----------------------------------------------------------------------------
(* Responses and requests *)

NoResp == [handler |-> "none"]
NoWebhook == [event |-> "none"]
NoThankYou == [kind |-> "none"]
NoQuery == [version |-> "none"]

ContractError(status, code, q) ==
    [handler |-> "thank-you-contract", status |-> status, code |-> code,
     contract |-> NoContract, req |-> q]

ContractOk(contract, q) ==
    [handler |-> "thank-you-contract", status |-> 200, code |-> "OK",
     contract |-> contract, req |-> q]

----------------------------------------------------------------------------
(* GET /api/thank-you-contract *)

\* String(req.query.version || "v1")
QueryVersion(q) == IF q.version = "" THEN "v1" ELSE q.version

\* (variant) the signature is not among the required parameters
MissingParamsNoSig(q) ==
    \/ QueryVersion(q) # "v1"
    \/ q.order_id = ""
    \/ q.payment_id = ""
    \/ q.ts.txt = ""

\* version !== "v1" || !order_id || !payment_id || !ts || !sig
MissingParams(q) ==
    \/ QueryVersion(q) # "v1"
    \/ q.order_id = ""
    \/ q.payment_id = ""
    \/ q.ts.txt = ""
    \/ q.sig.len = 0

\* !Number.isFinite(Number(ts))
InvalidTs(ts) == ~ts.finite

\* (variant) the number is taken as milliseconds whatever its length
TsMsAsGiven(ts) == ts.num

\* ts.length >= 13 ? tsNum : tsNum * 1000
TsMs(ts) == IF Len(ts.txt) >= 13 THEN ts.num ELSE ts.num * 1000

\* (variant) the freshness check uses the store's TTL
ExpiredTsStoreTtl(nowv, ts) == Abs(nowv - TsMs(ts)) > THANKYOU_CONTRACT_TTL_MS

\* Math.abs(Date.now() - tsMs) > 15 * 60 * 1000
ExpiredTs(nowv, ts) == Abs(nowv - TsMs(ts)) > THANKYOU_TS_WINDOW_MS

\* !timingSafeEqualStr(signThankYouV1({order_id, payment_id, ts}), sig)
BadSignature(secret, q) ==
    ~timingSafeEqualStr(signThankYouV1(secret, q.order_id, q.payment_id, q.ts), q.sig)

\* (variant) the store is consulted before the signature is verified
ThankYouContractResponseLookupFirst(secret, nowv, store, q) ==
    IF secret = "" THEN ContractError(500, "MISCONFIGURED", q)
    ELSE IF MissingParams(q) THEN ContractError(400, "MISSING_PARAMS", q)
    ELSE IF InvalidTs(q.ts) THEN ContractError(400, "INVALID_TS", q)
    ELSE IF ExpiredTs(nowv, q.ts) THEN ContractError(401, "EXPIRED_TS", q)
    ELSE LET contract == getThankYouContract(store, nowv, q.order_id, q.payment_id)
         IN  IF contract = NoContract THEN ContractError(404, "NOT_FOUND", q)
             ELSE IF BadSignature(secret, q)
                  THEN ContractError(401, "INVALID_SIGNATURE", q)
             ELSE ContractOk(contract, q)

\* the response of the handler
ThankYouContractResponse(secret, nowv, store, q) ==
    IF secret = "" THEN ContractError(500, "MISCONFIGURED", q)
    ELSE IF MissingParams(q) THEN ContractError(400, "MISSING_PARAMS", q)
    ELSE IF InvalidTs(q.ts) THEN ContractError(400, "INVALID_TS", q)
    ELSE IF ExpiredTs(nowv, q.ts) THEN ContractError(401, "EXPIRED_TS", q)
    ELSE IF BadSignature(secret, q) THEN ContractError(401, "INVALID_SIGNATURE", q)
    ELSE LET contract == getThankYouContract(store, nowv, q.order_id, q.payment_id)
         IN  IF contract = NoContract THEN ContractError(404, "NOT_FOUND", q)
             ELSE ContractOk(contract, q)

\* the store the handler leaves behind
ThankYouContractStoreAfter(secret, nowv, store, q) ==
    IF ThankYouContractResponse(secret, nowv, store, q).code \in {"OK", "NOT_FOUND"}
    THEN StoreAfterGet(store, nowv, q.order_id, q.payment_id)
    ELSE store

----------------------------------------------------------------------------
(* The payment gateway (external) *)

RAZORPAY_KEY_SECRET == "rzp_key_secret"

\* crypto.createHmac("sha256", key).update(body).digest("hex")
HexHmac(key, body) == "hmac256[" \o key \o "](" \o body \o ")"

\* the (order, payment) pairs the gateway has taken a payment for, and signed
GatewayPaid == {<<"o1", "p1">>, <<"o2", "p2">>}

NoNotes ==
    [segment |-> "", enterprisePackage |-> "", plan |-> "", billingType |-> "",
     isConsultation |-> "", basePrice |-> 0, gstAmount |-> 0, discount |-> 0,
     finalAmount |-> 0, country |-> "", couponCode |-> "", offerDescription |-> ""]

\* the notes the checkout handlers wrote on the gateway order
GatewayOrderNotes(order_id) ==
    IF order_id = "o1"
    THEN [segment |-> "enterprise", enterprisePackage |-> "90", plan |-> "",
          billingType |-> "yearly", isConsultation |-> "no", basePrice |-> 480000,
          gstAmount |-> 86400, discount |-> 1000, finalAmount |-> 565400,
          country |-> "India", couponCode |-> "SAVE10",
          offerDescription |-> "1000 off via SAVE10"]
    ELSE [segment |-> "starterpro", enterprisePackage |-> "", plan |-> "starter",
          billingType |-> "monthly", isConsultation |-> "", basePrice |-> 15000,
          gstAmount |-> 0, discount |-> 0, finalAmount |-> 15000,
          country |-> "USA", couponCode |-> "", offerDescription |-> ""]

\* String.prototype.toLowerCase on the strings of the model
ToLowerCase(s) ==
    CASE s = "India" -> "india"
      [] s = "INDIA" -> "india"
      [] s = " INDIA " -> " india "
      [] s = "USA" -> "usa"
      [] s = "YEARLY" -> "yearly"
      [] s = "Yearly" -> "yearly"
      [] OTHER -> s

----------------------------------------------------------------------------
(* POST /verify-payment *)

IdleSlot == [pc |-> "idle"]

\* !razorpay_payment_id || !razorpay_order_id || !razorpay_signature
MissingVerificationFields(b) ==
    \/ b.razorpay_payment_id = ""
    \/ b.razorpay_order_id = ""
    \/ b.razorpay_signature = ""

\* (variant) the gateway signature is only required to be present
GatewaySignatureUnchecked(b) == b.razorpay_signature # ""

\* expectedSignature === razorpay_signature
GatewaySignatureValid(b) ==
    HexHmac(RAZORPAY_KEY_SECRET, b.razorpay_order_id \o "|" \o b.razorpay_payment_id)
        = b.razorpay_signature

\* the canonical typed contract (v1) built from the order notes
BuildContract(order_id, payment_id, notes) ==
    LET isEnterprise == ToLowerCase(notes.segment) = "enterprise"
    IN  [version |-> "v1",
         kind |-> IF isEnterprise THEN "enterprise" ELSE "starter_pro",
         context |->
            IF isEnterprise
            THEN [package |-> ToLowerCase(notes.enterprisePackage),
                  billing_type |-> ToLowerCase(notes.billingType),
                  is_consultation |->
                      IF notes.isConsultation = "" THEN "no"
                      ELSE ToLowerCase(notes.isConsultation)]
            ELSE [plan |-> ToLowerCase(notes.plan),
                  billing_type |-> ToLowerCase(notes.billingType)],
         pricing |-> [base |-> notes.basePrice, gst |-> notes.gstAmount,
                      discount |-> notes.discount, final |-> notes.finalAmount,
                      currency |-> "INR",
                      is_india |-> ToLowerCase(notes.country) = "india"],
         ids |-> [order_id |-> order_id, payment_id |-> payment_id],
         display |-> [coupon_code |-> notes.couponCode,
                      offer_label |-> notes.offerDescription]]

ThankYouPath(kind) ==
    IF kind = "enterprise" THEN "/VVAS_thank-you-enterprise.html"
    ELSE "/VVAS_thank-you.html"

VerifyError(status, error, b) ==
    [handler |-> "verify-payment", status |-> status, success |-> FALSE,
     error |-> error, thank_you |-> NoThankYou, req |-> b]

\* res.json({ success: true, ..., thank_you: { kind, ts, sig, url } })
VerifySuccess(slot) ==
    [handler |-> "verify-payment", status |-> 200, success |-> TRUE, error |-> "",
     thank_you |->
        [kind |-> slot.kind, ts |-> slot.ts, sig |-> slot.sig,
         url |-> [path |-> ThankYouPath(slot.kind),
                  order_id |-> slot.body.razorpay_order_id,
                  payment_id |-> slot.body.razorpay_payment_id,
                  ts |-> slot.ts, sig |-> slot.sig]],
     req |-> slot.body]

----------------------------------------------------------------------------
(* The requests of the environment *)

OrderIds == {"", "o1", "o2"}
PaymentIds == {"", "p1", "p2"}

\* fresh, on the edge of the window, stale, in the future, in seconds, not a number
TsChoices(nowv) ==
    {MsLiteral(nowv), MsLiteral(nowv - 15 * Minute), MsLiteral(nowv - 16 * Minute),
     MsLiteral(nowv + 16 * Minute), SecLiteral(nowv), NaNLiteral}

\* the signature of the supplied triple, a signature issued for another triple,
\* and forgeries of the right and of another length
SigChoices(secret, order_id, payment_id, ts, nowv) ==
    {signThankYouV1(secret, order_id, payment_id, ts),
     signThankYouV1(secret, "o1", "p1", MsLiteral(nowv)),
     JunkSig, ShortSig}

Query(v, o, p, ts, sig) ==
    [version |-> v, order_id |-> o, payment_id |-> p, ts |-> ts, sig |-> sig]

\* queries with every parameter present, as the issued URL carries them
WellFormedQueries(secret, nowv) ==
    UNION {UNION {
        {Query("", pr[1], pr[2], ts, sig) :
            sig \in SigChoices(secret, pr[1], pr[2], ts, nowv)}
        : ts \in TsChoices(nowv)}
        : pr \in {<<"o1", "p1">>, <<"o2", "p2">>, <<"o1", "p2">>}}

\* a query with one parameter dropped, or with a version parameter
DefectiveQueries(secret, nowv) ==
    UNION {UNION {
        LET good == signThankYouV1(secret, "o1", "p1", ts)
        IN  {Query("v2", "o1", "p1", ts, sig), Query("v1", "o1", "p1", ts, sig),
             Query("", "", "p1", ts, sig), Query("", "o1", "", ts, sig),
             Query("", "o1", "p1", NoLiteral, sig), Query("", "o1", "p1", ts, NoSig),
             Query("", "o1", "p1", ts, good)}
        : sig \in {signThankYouV1(secret, "o1", "p1", ts), JunkSig}}
        : ts \in {MsLiteral(nowv), MsLiteral(nowv - 16 * Minute)}}

GetQueries(secret, nowv) ==
    WellFormedQueries(secret, nowv) \cup DefectiveQueries(secret, nowv)

\* links as the server issues them: every parameter present, the signature of
\* the triple, a timestamp of this or of an earlier moment
LinkQueries(secret, nowv) ==
    {Query("", pr[1], pr[2], ts, signThankYouV1(secret, pr[1], pr[2], ts)) :
        pr \in GatewayPaid, ts \in {MsLiteral(nowv), MsLiteral(nowv - 15 * Minute)}}

GatewaySignatureOf(pr) == HexHmac(RAZORPAY_KEY_SECRET, pr[1] \o "|" \o pr[2])

Body(o, p, s) ==
    [razorpay_order_id |-> o, razorpay_payment_id |-> p, razorpay_signature |-> s]

\* a paid pair with its gateway signature, with none, with a forged one, with the
\* signature of the other pair; a field missing; a pair the gateway never signed
VerifyBodies ==
    {Body(pr[1], pr[2], sg) :
        pr \in GatewayPaid,
        sg \in {"", "forged"} \cup {GatewaySignatureOf(x) : x \in GatewayPaid}}
    \cup {Body("", "p1", GatewaySignatureOf(<<"o1", "p1">>)),
          Body("o1", "", GatewaySignatureOf(<<"o1", "p1">>)),
          Body("o1", "p2", GatewaySignatureOf(<<"o1", "p1">>)),
          Body("o1", "p2", GatewaySignatureOf(<<"o2", "p2">>))}

----------------------------------------------------------------------------
(* Initial state: a fresh process *)

\* the requests the process has in flight at once
Slots == DOMAIN inflight

EmptyStore == [k \in {} |-> NoContract]

Init ==
    /\ now = StartNow
    /\ THANKYOU_SIG_SECRET \in {"", "ty_secret"}
    /\ N8N_PAYMENT_WEBHOOK_URL \in {"", "https://n8n/webhook"}
    /\ thankYouContractStore = EmptyStore
    /\ inflight = [i \in 1 .. MaxInFlight |-> IdleSlot]
    /\ lastResp = NoResp
    /\ webhookOut = NoWebhook
    /\ redeemed = NoQuery
    /\ offers = <<>>

----------------------------------------------------------------------------
(* Actions *)

\* Node runs one callback at a time: what a callback sent (its response, its
\* webhook call) has left the process before the next callback runs
OutboxEmpty == lastResp = NoResp /\ webhookOut = NoWebhook

Flush ==
    /\ ~OutboxEmpty
    /\ lastResp' = NoResp
    /\ webhookOut' = NoWebhook
    /\ UNCHANGED <<now, THANKYOU_SIG_SECRET, N8N_PAYMENT_WEBHOOK_URL,
                   thankYouContractStore, inflight, redeemed, offers>>

\* the wall clock advances
Tick ==
    /\ OutboxEmpty
    /\ \E d \in TickSteps :
        /\ now + d <= StartNow + MaxElapsedMinutes * Minute
        /\ now' = now + d
        /\ lastResp' = NoResp
        /\ webhookOut' = NoWebhook
        /\ UNCHANGED <<THANKYOU_SIG_SECRET, N8N_PAYMENT_WEBHOOK_URL,
                       thankYouContractStore, inflight, redeemed, offers>>

\* the first GET answered with a contract, and whether a later GET with the same
\* parameters was answered with that contract again
NoteRedeemed(old, resp) ==
    IF resp.status # 200 THEN old
    ELSE IF old = NoQuery
         THEN [req |-> resp.req, contract |-> resp.contract, again |-> FALSE]
    ELSE IF old.req = resp.req /\ old.contract = resp.contract
         THEN [old EXCEPT !.again = TRUE]
    ELSE old

\* GET /api/thank-you-contract (synchronous: one step)
GetThankYouContract(queries, track) ==
    /\ OutboxEmpty
    /\ \E q \in queries :
        LET resp == ThankYouContractResponse(THANKYOU_SIG_SECRET, now,
                                             thankYouContractStore, q)
        IN  /\ lastResp' = resp
            /\ thankYouContractStore' =
                   ThankYouContractStoreAfter(THANKYOU_SIG_SECRET, now,
                                              thankYouContractStore, q)
            /\ redeemed' = IF track THEN NoteRedeemed(redeemed, resp) ELSE redeemed
            /\ webhookOut' = NoWebhook
            /\ UNCHANGED <<now, THANKYOU_SIG_SECRET, N8N_PAYMENT_WEBHOOK_URL,
                           inflight, offers>>

\* any query
GetThankYouContractRequest ==
    GetThankYouContract(GetQueries(THANKYOU_SIG_SECRET, now), FALSE)

\* the holder of a link follows it (again)
FollowLink ==
    GetThankYouContract(LinkQueries(THANKYOU_SIG_SECRET, now), TRUE)

\* POST /verify-payment, up to its first await (razorpay.payments.fetch)
VerifyPayment(bodies) ==
    /\ OutboxEmpty
    /\ \E b \in bodies :
        /\ IF MissingVerificationFields(b)
           THEN /\ lastResp' = VerifyError(400, "Missing Razorpay payment verification fields", b)
                /\ inflight' = inflight
           ELSE IF ~GatewaySignatureValid(b)
           THEN /\ lastResp' = VerifyError(400, "Invalid signature", b)
                /\ inflight' = inflight
           ELSE \E i \in Slots :
                /\ inflight[i].pc = "idle"
                /\ inflight' = [inflight EXCEPT ![i] = [pc |-> "payments.fetch", body |-> b]]
                /\ lastResp' = NoResp
        /\ webhookOut' = NoWebhook
        /\ UNCHANGED <<now, THANKYOU_SIG_SECRET, N8N_PAYMENT_WEBHOOK_URL,
                       thankYouContractStore, redeemed, offers>>

VerifyPaymentRequest == VerifyPayment(VerifyBodies)

\* paymentDetails: what razorpay.payments.fetch resolved to, or null ("") after
\* the catch of a rejection
PaymentDetails(payment_id, ok) == IF ok THEN [id |-> payment_id] ELSE [id |-> ""]

\* (variant) after a failed fetch the notes written at checkout are used
OrderDetailsFromCheckout(order_id, ok) ==
    IF ok THEN [id |-> order_id, notes |-> GatewayOrderNotes(order_id)]
    ELSE [id |-> "", notes |-> GatewayOrderNotes(order_id)]

\* orderDetails, likewise
OrderDetails(order_id, ok) ==
    IF ok THEN [id |-> order_id, notes |-> GatewayOrderNotes(order_id)]
    ELSE [id |-> "", notes |-> NoNotes]

\* razorpay.payments.fetch settles (resolved or rejected); orders.fetch is awaited
PaymentsFetchReturn ==
    /\ OutboxEmpty
    /\ \E i \in Slots, ok \in BOOLEAN :
        /\ inflight[i].pc = "payments.fetch"
        /\ inflight' = [inflight EXCEPT ![i] =
               [pc |-> "orders.fetch", body |-> inflight[i].body,
                paymentDetails |->
                    PaymentDetails(inflight[i].body.razorpay_payment_id, ok)]]
        /\ lastResp' = NoResp
        /\ webhookOut' = NoWebhook
        /\ UNCHANGED <<now, THANKYOU_SIG_SECRET, N8N_PAYMENT_WEBHOOK_URL,
                       thankYouContractStore, redeemed, offers>>

\* the pass-through data of the frontend (amount, currency, customer, plan,
\* meta), as far as the body carries them: they go into the webhook payload
PassThrough(b) ==
    [f \in (DOMAIN b) \ {"razorpay_order_id", "razorpay_payment_id", "razorpay_signature"}
        |-> b[f]]

\* (variant) the contract takes its final amount from the amount the client sent
ContractFromClient(b, notes) ==
    LET contract == BuildContract(b.razorpay_order_id, b.razorpay_payment_id, notes)
    IN  [contract EXCEPT !.pricing.final = b.amount]

\* the contract the handler builds for the request with body b
ContractOf(b, notes) == BuildContract(b.razorpay_order_id, b.razorpay_payment_id, notes)

\* the slot of a request that has stored its contract and signed its link
SignedSlot(slot, contract, nowv, secret) ==
    [pc |-> "webhook", body |-> slot.body, kind |-> contract.kind,
     ts |-> MsLiteral(nowv),
     sig |-> signThankYouV1(secret, slot.body.razorpay_order_id,
                            slot.body.razorpay_payment_id, MsLiteral(nowv))]

\* razorpay.orders.fetch settles: the contract is built and stored, the link is
\* signed, and the webhook call (if configured) is dispatched and awaited
OrdersFetchReturn ==
    /\ OutboxEmpty
    /\ \E i \in Slots, ok \in BOOLEAN :
        /\ inflight[i].pc = "orders.fetch"
        /\ LET b == inflight[i].body
               orderDetails == OrderDetails(b.razorpay_order_id, ok)
               notes == orderDetails.notes
               contract == ContractOf(b, notes)
               signed == SignedSlot(inflight[i], contract, now, THANKYOU_SIG_SECRET)
           IN  /\ thankYouContractStore' =
                      storeThankYouContract(thankYouContractStore, now,
                          b.razorpay_order_id, b.razorpay_payment_id, contract)
               /\ IF signThankYouV1Throws(THANKYOU_SIG_SECRET)
                  THEN /\ lastResp' = VerifyError(500, "Internal server error", b)
                       /\ inflight' = [inflight EXCEPT ![i] = IdleSlot]
                       /\ webhookOut' = NoWebhook
                  ELSE IF N8N_PAYMENT_WEBHOOK_URL # ""
                  THEN /\ lastResp' = NoResp
                       /\ inflight' = [inflight EXCEPT ![i] = signed]
                       /\ webhookOut' = [event |-> "dispatch",
                                         razorpay_order_id |-> b.razorpay_order_id,
                                         razorpay_payment_id |-> b.razorpay_payment_id,
                                         razorpay_order_notes |-> notes,
                                         passThrough |-> PassThrough(b),
                                         payment_details |-> inflight[i].paymentDetails,
                                         order_details |-> orderDetails]
                  ELSE /\ lastResp' = VerifySuccess(signed)
                       /\ inflight' = [inflight EXCEPT ![i] = IdleSlot]
                       /\ webhookOut' = NoWebhook
        /\ UNCHANGED <<now, THANKYOU_SIG_SECRET, N8N_PAYMENT_WEBHOOK_URL, redeemed, offers>>

\* (variant) a failed webhook call reaches the outer catch
WebhookFailureFails(slot, ok) ==
    IF ok THEN VerifySuccess(slot)
    ELSE VerifyError(500, "Internal server error", slot.body)

\* the response after the webhook call has settled: the catch swallows a failure
WebhookSettledResponse(slot, ok) == VerifySuccess(slot)

\* the webhook call settles (answered, or failed: thrown / unreachable)
WebhookReturn ==
    /\ OutboxEmpty
    /\ \E i \in Slots, ok \in BOOLEAN :
        /\ inflight[i].pc = "webhook"
        /\ lastResp' = WebhookSettledResponse(inflight[i], ok)
        /\ webhookOut' = [event |-> IF ok THEN "answered" ELSE "failed"]
        /\ inflight' = [inflight EXCEPT ![i] = IdleSlot]
        /\ UNCHANGED <<now, THANKYOU_SIG_SECRET, N8N_PAYMENT_WEBHOOK_URL,
                       thankYouContractStore, redeemed, offers>>

Next ==
    \/ Flush
    \/ Tick
    \/ GetThankYouContractRequest
    \/ VerifyPaymentRequest
    \/ PaymentsFetchReturn
    \/ OrdersFetchReturn
    \/ WebhookReturn

Spec == Init /\ [][Next]_vars

\* the same process, watched for repeated redemptions of one link
InitRedeem ==
    /\ Init
    /\ THANKYOU_SIG_SECRET # ""
    /\ N8N_PAYMENT_WEBHOOK_URL # ""

NextRedeem ==
    \/ Flush
    \/ Tick
    \/ FollowLink
    \/ VerifyPaymentRequest
    \/ PaymentsFetchReturn
    \/ OrdersFetchReturn
    \/ WebhookReturn

SpecRedeem == InitRedeem /\ [][NextRedeem]_vars

\* the retrieval endpoint on its own, asked with timestamps of every form: in
\* milliseconds and in seconds, fresh, on the edge of the window and beyond it,
\* padded with blanks, and not a number
TsForms(nowv) ==
    {MsLiteral(nowv), MsLiteral(nowv - 15 * Minute), MsLiteral(nowv - 16 * Minute),
     MsLiteral(nowv + 16 * Minute), SecLiteral(nowv), SecLiteral(nowv - 15 * Minute),
     SecLiteral(nowv - 16 * Minute), PaddedSecLiteral(nowv), NaNLiteral, NoLiteral}

TsQueries(secret, nowv) ==
    UNION {{Query("", "o1", "p1", ts, signThankYouV1(secret, "o1", "p1", ts)),
            Query("", "o1", "p1", ts, JunkSig),
            Query("", "o1", "p1", ts, NoSig)} : ts \in TsForms(nowv)}

TsLookUp == GetThankYouContract(TsQueries(THANKYOU_SIG_SECRET, now), FALSE)

NextTimestamps ==
    \/ Flush
    \/ Tick
    \/ TsLookUp

SpecTimestamps == Init /\ [][NextTimestamps]_vars

\* the same process with two verifications in flight at once
ConcurrentRequests == 2

InitConcurrent ==
    /\ now = StartNow
    /\ THANKYOU_SIG_SECRET = "ty_secret"
    /\ N8N_PAYMENT_WEBHOOK_URL = "https://n8n/webhook"
    /\ thankYouContractStore = EmptyStore
    /\ inflight = [i \in 1 .. ConcurrentRequests |-> IdleSlot]
    /\ lastResp = NoResp
    /\ webhookOut = NoWebhook
    /\ redeemed = NoQuery
    /\ offers = <<>>

\* the verifications of the two paid pairs, and the links issued for them
PaidBodies == {Body(pr[1], pr[2], GatewaySignatureOf(pr)) : pr \in GatewayPaid}

VerifyPaid == VerifyPayment(PaidBodies)

LookUpLink == GetThankYouContract(LinkQueries(THANKYOU_SIG_SECRET, now), FALSE)

NextConcurrent ==
    \/ Flush
    \/ Tick
    \/ LookUpLink
    \/ VerifyPaid
    \/ PaymentsFetchReturn
    \/ OrdersFetchReturn
    \/ WebhookReturn

SpecConcurrent == InitConcurrent /\ [][NextConcurrent]_vars

----------------------------------------------------------------------------
(* OFFERS STORAGE HELPERS                                                  *)
(* An offer record carries the fields the offers engine reads or writes:   *)
(* code, type, amount, active, enabled (legacy), appliesTo.plans,          *)
(* applicablePlans (legacy), validity, startAt/endAt (legacy) and used.    *)
(* A JSON field that may be absent has the value Undefined, or a record    *)
(* with defined = FALSE; JSON true and false are "true" and "false".       *)

Undefined == "undefined"

\* a date field: null, absent, a string or number new Date() reads as an instant
\* (ms on the model's clock), or a string it reads as Invalid Date
NoDate == [kind |-> "null", time |-> 0]
UndefinedDate == [kind |-> "undefined", time |-> 0]
DateAt(t) == [kind |-> "date", time |-> t]
BadDate == [kind |-> "invalid", time |-> 0]

\* String.prototype.toUpperCase on the strings of the model
ToUpperCase(s) ==
    CASE s = "save10" -> "SAVE10"
      [] s = " save10 " -> " SAVE10 "
      [] s = "old5" -> "OLD5"
      [] s = "nope" -> "NOPE"
      [] s = "percent" -> "PERCENT"
      [] s = "fixed" -> "FIXED"
      [] s = "Fixed" -> "FIXED"
      [] s = " Fixed " -> " FIXED "
      [] s = "bogus" -> "BOGUS"
      [] OTHER -> s

\* String.prototype.trim on the strings of the model
Trim(s) ==
    CASE s = " save10 " -> "save10"
      [] s = " SAVE10 " -> "SAVE10"
      [] s = " INDIA " -> "INDIA"
      [] s = " india " -> "india"
      [] s = " Fixed " -> "Fixed"
      [] s = " " -> ""
      [] OTHER -> s

\* !!v of a JSON boolean or an absent field
Truthy(v) == v = "true"

\* value || null of a date field
OrNull(d) == IF d.kind = "undefined" THEN NoDate ELSE d

\* Number("Infinity"), Number(1e999): larger than every amount
Infinity == 2147483647

\* null where a number is expected in offers.json
JsonNull == 0 - 2147483647

\* JSON.stringify of a number: null for Infinity
JsonStringifyNumber(n) == IF n = Infinity THEN JsonNull ELSE n

\* Number(value) of what JSON.parse read: 0 for null
NumberOf(a) == IF a = JsonNull THEN 0 ELSE a

\* the upgrade loadOffers applies to each record it reads
NormalizeOffer(o) ==
    [o EXCEPT
        !.active = IF o.active = Undefined /\ o.enabled \in {"true", "false"}
                   THEN o.enabled
                   ELSE IF o.active = Undefined THEN "true" ELSE o.active,
        !.validity = IF ~o.validity.defined
                     THEN [defined |-> TRUE, start |-> OrNull(o.startAt),
                           end |-> OrNull(o.endAt)]
                     ELSE o.validity,
        !.appliesTo = IF ~o.appliesTo.defined
                      THEN [defined |-> TRUE, plans |-> o.applicablePlans]
                      ELSE o.appliesTo,
        !.type = ToUpperCase(o.type),
        !.amount = NumberOf(o.amount)]

loadOffers(file) == [i \in DOMAIN file |-> NormalizeOffer(file[i])]

\* saveOffers: the array as JSON.stringify writes it
saveOffers(offersArray) ==
    [i \in DOMAIN offersArray |->
        [offersArray[i] EXCEPT !.amount = JsonStringifyNumber(offersArray[i].amount)]]

\* Array.prototype.findIndex / find: the first of the positions (counted from 1)
\* that pass the test; 0 when none does
FirstIndex(hits) ==
    IF hits = {} THEN 0 ELSE CHOOSE i \in hits : \A j \in hits : i <= j

\* Array.prototype.includes
Includes(arr, x) == \E i \in DOMAIN arr : arr[i] = x

\* list.map((p) => String(p || "").trim()).filter(Boolean)
CleanList(list) ==
    LET trimmed == [i \in DOMAIN list |-> Trim(list[i])]
        NonEmpty(p) == p # ""
    IN  SelectSeq(trimmed, NonEmpty)

----------------------------------------------------------------------------
(* OFFER VALIDATION (USED BY CHECKOUT) *)

NoOffer == [code |-> ""]
NoMatch == [valid |-> FALSE, offer |-> NoOffer]

\* (variant) the legacy enabled flag, where present, takes precedence
IsActiveLegacyFirst(offer) ==
    IF offer.enabled # Undefined THEN Truthy(offer.enabled)
    ELSE IF offer.active # Undefined THEN Truthy(offer.active)
    ELSE TRUE

\* offer.active !== undefined ? !!offer.active
\*   : offer.enabled !== undefined ? !!offer.enabled : true
IsActive(offer) ==
    IF offer.active # Undefined THEN Truthy(offer.active)
    ELSE IF offer.enabled # Undefined THEN Truthy(offer.enabled)
    ELSE TRUE

\* the start / end the validation compares with: new Date(field) of a truthy
\* field, else null
WindowStart(offer) ==
    LET field == IF offer.validity.defined THEN offer.validity.start ELSE offer.startAt
    IN  IF field.kind \in {"date", "invalid"} THEN field ELSE NoDate

WindowEnd(offer) ==
    LET field == IF offer.validity.defined THEN offer.validity.end ELSE offer.endAt
    IN  IF field.kind \in {"date", "invalid"} THEN field ELSE NoDate

\* start && now < start (a comparison with an Invalid Date is false)
NotYetStarted(nowv, offer) ==
    LET start == WindowStart(offer)
    IN  start.kind # "null" /\ start.kind = "date" /\ nowv < start.time

\* end && now > end
AlreadyEnded(nowv, offer) ==
    LET end == WindowEnd(offer)
    IN  end.kind # "null" /\ end.kind = "date" /\ nowv > end.time

OfferPlans(offer) ==
    IF offer.appliesTo.defined THEN offer.appliesTo.plans ELSE offer.applicablePlans

\* plans.length > 0 && !plans.includes(planId)
\* (variant) an offer with no plan listed is for no plan
PlanExcludedUnlessListed(offer, planId) == ~Includes(OfferPlans(offer), planId)

PlanExcluded(offer, planId) ==
    Len(OfferPlans(offer)) > 0 /\ ~Includes(OfferPlans(offer), planId)

\* (variant) an offer used up to its limit is turned away
validateOfferForPlanLimited(file, nowv, planId, couponCode) ==
    IF couponCode = "" THEN NoMatch
    ELSE LET loaded == loadOffers(file)
             code == ToUpperCase(Trim(couponCode))
             idx == FirstIndex({i \in DOMAIN loaded : ToUpperCase(loaded[i].code) = code})
         IN  IF Len(loaded) = 0 THEN NoMatch
             ELSE IF idx = 0 THEN NoMatch
             ELSE IF ~IsActive(loaded[idx]) THEN NoMatch
             ELSE IF NotYetStarted(nowv, loaded[idx]) THEN NoMatch
             ELSE IF AlreadyEnded(nowv, loaded[idx]) THEN NoMatch
             ELSE IF PlanExcluded(loaded[idx], planId) THEN NoMatch
             ELSE IF loaded[idx].used >= loaded[idx].usageLimit THEN NoMatch
             ELSE [valid |-> TRUE, offer |-> loaded[idx]]

validateOfferForPlan(file, nowv, planId, couponCode) ==
    IF couponCode = "" THEN NoMatch
    ELSE LET loaded == loadOffers(file)
             code == ToUpperCase(Trim(couponCode))
             idx == FirstIndex({i \in DOMAIN loaded : ToUpperCase(loaded[i].code) = code})
         IN  IF Len(loaded) = 0 THEN NoMatch
             ELSE IF idx = 0 THEN NoMatch
             ELSE IF ~IsActive(loaded[idx]) THEN NoMatch
             ELSE IF NotYetStarted(nowv, loaded[idx]) THEN NoMatch
             ELSE IF AlreadyEnded(nowv, loaded[idx]) THEN NoMatch
             ELSE IF PlanExcluded(loaded[idx], planId) THEN NoMatch
             ELSE [valid |-> TRUE, offer |-> loaded[idx]]

----------------------------------------------------------------------------
(* PRICING + OFFER APPLICATION                                             *)
(* Amounts are whole rupees.  The rates 0.18 and 0.8 are the fractions     *)
(* 18/100 and 8/10; on whole amounts Math.round of the double product is   *)
(* the rounding of the exact quotient, halves upward.                      *)

\* Math.round(n / d) for d > 0
RoundDiv(n, d) == (2 * n + d) \div (2 * d)

ONE_TIME_PLAN_PRICES ==
    "PLAN_CALL" :> 5000 @@ "PLAN_60" :> 40000 @@ "PLAN_90" :> 50000 @@ "PLAN_120" :> 55000

STARTER_PRO_PLAN_PRICES == "SP_STARTER" :> 15000 @@ "SP_PRO" :> 30000

ENTERPRISE_BASE_PRICES ==
    "60" :> 40000 @@ "90" :> 50000 @@ "120" :> 55000 @@ "consultation" :> 5000

\* Math.round(base * 0.18)
Gst(base) == RoundDiv(base * 18, 100)

\* (variant) twelve months at the monthly price
YearlyBaseUndiscounted(baseMonthly) == baseMonthly * 12

\* Math.round(baseMonthly * 12 * 0.8)
YearlyBase(baseMonthly) == RoundDiv(baseMonthly * 12 * 8, 10)

Price(base, gst) == [base |-> base, gst |-> gst, total |-> base + gst]

\* customBasePrice: a number > 0 replaces the price of the table (0: none given)
computeOneTimePrice(planId, customBasePrice) ==
    LET listed == IF planId \in DOMAIN ONE_TIME_PLAN_PRICES
                  THEN ONE_TIME_PLAN_PRICES[planId] ELSE 0
        base == IF customBasePrice > 0 THEN customBasePrice ELSE listed
    IN  Price(base, Gst(base))

\* (variant) the country compared as it was sent
IsIndiaAsSent(country) == country = "india"

\* (country || "").trim().toLowerCase() === "india"
IsIndia(country) == ToLowerCase(Trim(country)) = "india"

\* !ENTERPRISE_BASE_PRICES[pkg]: the function throws
computeEnterprisePriceThrows(pkg) == pkg \notin DOMAIN ENTERPRISE_BASE_PRICES

computeEnterprisePrice(pkg, billingType, country) ==
    LET baseMonthly == ENTERPRISE_BASE_PRICES[pkg]
        bt == ToLowerCase(IF billingType = "" THEN "monthly" ELSE billingType)
        base == IF pkg = "consultation" THEN ENTERPRISE_BASE_PRICES["consultation"]
                ELSE IF bt = "yearly" THEN YearlyBase(baseMonthly)
                ELSE baseMonthly
    IN  Price(base, IF IsIndia(country) THEN Gst(base) ELSE 0)

\* (variant) a plan id per package and cadence
getEnterprisePlanIdPerCadence(pkg, billingType) ==
    IF billingType = "yearly" THEN "ENT_" \o pkg \o "_YEARLY" ELSE "ENT_" \o pkg

getEnterprisePlanId(pkg, billingType) ==
    CASE pkg = "consultation" -> "ENT_CONSULTATION"
      [] pkg = "60" -> "ENT_60"
      [] pkg = "90" -> "ENT_90"
      [] pkg = "120" -> "ENT_120"
      [] OTHER -> "ENT_UNKNOWN"

\* the discount before it is clamped
RawDiscount(totalAmount, offer) ==
    IF offer.type = "PERCENT" THEN RoundDiv(totalAmount * offer.amount, 100)
    ELSE IF offer.type = "FIXED" THEN offer.amount
    ELSE 0

\* (variant) the discount is not capped at the total
ClampDiscountNoCap(discount, totalAmount) == IF discount < 0 THEN 0 ELSE discount

\* if (discount < 0) discount = 0; if (discount > totalAmount) discount = totalAmount
ClampDiscount(discount, totalAmount) ==
    IF discount < 0 THEN (IF 0 > totalAmount THEN totalAmount ELSE 0)
    ELSE IF discount > totalAmount THEN totalAmount
    ELSE discount

\* the description of an applied offer (the rupee sign of the FIXED form is left out)
OfferDescription(offer) ==
    IF offer.type = "PERCENT"
    THEN ToString(offer.amount) \o "% off via " \o offer.code
    ELSE ToString(offer.amount) \o " off via " \o offer.code

applyOffer(totalAmount, offer) ==
    IF offer = NoOffer
    THEN [discount |-> 0, final |-> totalAmount, description |-> ""]
    ELSE LET discount == ClampDiscount(RawDiscount(totalAmount, offer), totalAmount)
         IN  [discount |-> discount, final |-> totalAmount - discount,
              description |-> OfferDescription(offer)]

----------------------------------------------------------------------------
(* PUBLIC: VALIDATE OFFER FOR ONE-TIME PLAN (for checkout UI) *)

\* POST /api/validate-offer (basePrice 0: none given; an offer that is not
\* applied leaves final = total, shown here with discount 0)
ValidateOfferResponse(file, nowv, body) ==
    IF body.planId = ""
    THEN [handler |-> "validate-offer", status |-> 400, base |-> 0, gst |-> 0,
          total |-> 0, offerApplied |-> FALSE, offer |-> NoOffer, discount |-> 0,
          final |-> 0, offerDescription |-> "", req |-> body]
    ELSE LET price == computeOneTimePrice(body.planId, body.basePrice)
             result == validateOfferForPlan(file, nowv, body.planId, body.couponCode)
             calc == applyOffer(price.total, result.offer)
         IN  [handler |-> "validate-offer", status |-> 200, base |-> price.base,
              gst |-> price.gst, total |-> price.total,
              offerApplied |-> result.valid, offer |-> result.offer,
              discount |-> calc.discount, final |-> calc.final,
              offerDescription |-> calc.description, req |-> body]

----------------------------------------------------------------------------
(* OFFERS ADMIN - API                                                      *)
(* Each operation is a function from the content of offers.json and the    *)
(* request to the status answered and the content saveOffers writes (the   *)
(* array loadOffers returned, upgraded records included, with the change). *)

ADMIN_OFFERS_SECRET == "admin_secret"

AdminResult(status, error, file) == [status |-> status, error |-> error, offers |-> file]

\* the answer of the middleware, or 0 when it calls next()
requireAdminSecret(headerSecret) ==
    IF headerSecret = "" THEN 401
    ELSE IF headerSecret # ADMIN_OFFERS_SECRET THEN 401
    ELSE 0

\* validity && validity.start ? validity.start : null
DateOrNull(d) == IF d.kind \in {"date", "invalid"} THEN d ELSE NoDate

\* POST /api/admin/offers
CreateOffer(file, body) ==
    LET normalizedCode == ToUpperCase(Trim(body.code))
        normalizedType == ToUpperCase(Trim(body.type))
        plans == CleanList(body.plans)
        loaded == loadOffers(file)
        idx == FirstIndex({i \in DOMAIN loaded : loaded[i].code = normalizedCode})
        active == IF body.active = "false" THEN "false" ELSE "true"
        validity == [defined |-> TRUE, start |-> DateOrNull(body.start),
                     end |-> DateOrNull(body.end)]
        fresh == [code |-> normalizedCode, type |-> normalizedType,
                  amount |-> body.amount, active |-> active, enabled |-> Undefined,
                  appliesTo |-> [defined |-> TRUE, plans |-> plans],
                  applicablePlans |-> <<>>, validity |-> validity,
                  startAt |-> UndefinedDate, endAt |-> UndefinedDate, used |-> 0]
    IN  IF body.code = "" \/ body.type = "" \/ body.amount = 0
        THEN AdminResult(400, "code, type and amount are required", file)
        ELSE IF body.amount <= 0
        THEN AdminResult(400, "amount must be > 0", file)
        ELSE IF normalizedType \notin {"PERCENT", "FIXED"}
        THEN AdminResult(400, "type must be PERCENT or FIXED", file)
        ELSE IF Len(plans) = 0
        THEN AdminResult(400, "At least one plan (appliesTo.plans) is required", file)
        ELSE IF idx > 0
        THEN AdminResult(200, "", saveOffers([loaded EXCEPT ![idx] =
                 [loaded[idx] EXCEPT !.code = normalizedCode, !.type = normalizedType,
                                     !.amount = body.amount, !.active = active,
                                     !.appliesTo = [defined |-> TRUE, plans |-> plans],
                                     !.used = 0, !.validity = validity]]))
        ELSE AdminResult(200, "", saveOffers(Append(loaded, fresh)))

\* PATCH /api/admin/offers/:code/enable (flag = "true") and /disable ("false")
SetOfferActive(file, code, flag) ==
    LET codeParam == ToUpperCase(code)
        loaded == loadOffers(file)
        idx == FirstIndex({i \in DOMAIN loaded : loaded[i].code = codeParam})
    IN  IF codeParam = "" THEN AdminResult(400, "Offer code is required in URL", file)
        ELSE IF idx = 0 THEN AdminResult(404, "Offer not found", file)
        ELSE AdminResult(200, "", saveOffers([loaded EXCEPT ![idx] =
                 [loaded[idx] EXCEPT !.active = flag, !.enabled = flag]]))

\* DELETE /api/admin/offers/:code
DeleteOffer(file, code) ==
    LET codeParam == ToUpperCase(code)
        loaded == loadOffers(file)
        OtherCode(o) == o.code # codeParam
        filtered == SelectSeq(loaded, OtherCode)
    IN  IF codeParam = "" THEN AdminResult(400, "Offer code is required in URL", file)
        ELSE IF Len(filtered) = Len(loaded) THEN AdminResult(404, "Offer not found", file)
        ELSE AdminResult(200, "", saveOffers(filtered))

\* PATCH /api/admin/offers/:code (legacy); a field of the patch that is absent
\* is "", 0, Undefined, or a record with defined = FALSE
PatchOffer(file, code, patch) ==
    LET codeParam == ToUpperCase(code)
        loaded == loadOffers(file)
        idx == FirstIndex({i \in DOMAIN loaded : loaded[i].code = codeParam})
        current == loaded[idx]
        t == ToUpperCase(patch.type)
    IN  IF codeParam = "" THEN AdminResult(400, "Offer code is required in URL", file)
        ELSE IF idx = 0 THEN AdminResult(404, "Offer not found", file)
        ELSE AdminResult(200, "", saveOffers([loaded EXCEPT ![idx] =
                 [current EXCEPT
                     !.type = IF patch.type # "" /\ t \in {"PERCENT", "FIXED"}
                              THEN t ELSE current.type,
                     !.amount = IF patch.amount > 0 THEN patch.amount ELSE current.amount,
                     !.active = IF patch.active # Undefined
                                THEN (IF Truthy(patch.active) THEN "true" ELSE "false")
                                ELSE current.active,
                     !.enabled = IF patch.active # Undefined
                                 THEN (IF Truthy(patch.active) THEN "true" ELSE "false")
                                 ELSE current.enabled,
                     !.appliesTo = IF patch.appliesTo.defined
                                   THEN [defined |-> TRUE,
                                         plans |-> CleanList(patch.appliesTo.plans)]
                                   ELSE current.appliesTo,
                     !.validity = IF patch.validity.defined
                                  THEN [defined |-> TRUE,
                                        start |-> IF patch.validity.start.kind # "undefined"
                                                  THEN patch.validity.start
                                                  ELSE current.validity.start,
                                        end |-> IF patch.validity.end.kind # "undefined"
                                                THEN patch.validity.end
                                                ELSE current.validity.end]
                                  ELSE current.validity]]))

----------------------------------------------------------------------------
(* The requests of the offers engine's clients, and the offers file *)

WindowOpens == 35 * Minute
WindowCloses == 50 * Minute

AdminHeaders == {"", "wrong", ADMIN_OFFERS_SECRET}

CreateBody(code, type, amount, active, plans, start, end) ==
    [code |-> code, type |-> type, amount |-> amount, active |-> active,
     plans |-> plans, start |-> start, end |-> end]

\* an offer for SAVE10: active or not, for one plan or another, with or without
\* a validity window; and bodies the handler rejects
CreateBodies ==
    {CreateBody(" save10 ", "percent", 10, active, plans, w[1], w[2]) :
        active \in {Undefined, "false"},
        plans \in {<<"SP_STARTER">>, <<"ENT_90", " ">>},
        w \in {<<UndefinedDate, UndefinedDate>>,
               <<DateAt(WindowOpens), DateAt(WindowCloses)>>}}
    \cup {CreateBody("", "percent", 10, Undefined, <<"SP_STARTER">>, NoDate, NoDate),
          CreateBody("save10", "fixed", 0, Undefined, <<"SP_STARTER">>, NoDate, NoDate),
          CreateBody("save10", "fixed", 0 - 5, Undefined, <<"SP_STARTER">>, NoDate, NoDate),
          CreateBody("save10", "bogus", 10, Undefined, <<"SP_STARTER">>, NoDate, NoDate),
          CreateBody("save10", "fixed", 1000, Undefined, <<" ">>, NoDate, NoDate)}

CodeParams == {"save10", "old5", "nope"}

NoPlansPatch == [defined |-> FALSE, plans |-> <<>>]
NoValidityPatch == [defined |-> FALSE, start |-> UndefinedDate, end |-> UndefinedDate]

Patch(type, amount, active, appliesTo, validity) ==
    [type |-> type, amount |-> amount, active |-> active,
     appliesTo |-> appliesTo, validity |-> validity]

\* switch the offer off, on; lift the plan restriction; move the end of the
\* window, or make it unreadable; a type and an amount the handler ignores
Patches ==
    {Patch("", 0, "false", NoPlansPatch, NoValidityPatch),
     Patch("", 0, "true", NoPlansPatch, NoValidityPatch),
     Patch("", 0, Undefined, [defined |-> TRUE, plans |-> <<>>], NoValidityPatch),
     Patch("", 0, Undefined, NoPlansPatch,
           [defined |-> TRUE, start |-> UndefinedDate, end |-> DateAt(WindowOpens)]),
     Patch("", 0, Undefined, NoPlansPatch,
           [defined |-> TRUE, start |-> UndefinedDate, end |-> BadDate]),
     Patch("bogus", 0 - 5, Undefined, NoPlansPatch, NoValidityPatch)}

ValidateBodies ==
    {[planId |-> planId, basePrice |-> 0, couponCode |-> couponCode] :
        planId \in {"", "SP_STARTER", "ENT_90"},
        couponCode \in {"", " save10 ", "old5", "nope"}}

\* an offers.json written before the active / appliesTo / validity fields existed
LegacyOffersFile ==
    <<[code |-> "OLD5", type |-> "percent", amount |-> 5, active |-> Undefined,
       enabled |-> "true", appliesTo |-> [defined |-> FALSE, plans |-> <<>>],
       applicablePlans |-> <<"SP_STARTER">>,
       validity |-> [defined |-> FALSE, start |-> UndefinedDate, end |-> UndefinedDate],
       startAt |-> UndefinedDate, endAt |-> DateAt(WindowCloses), used |-> 0]>>

----------------------------------------------------------------------------
(* Actions of the offers engine *)

\* (variant) the secret is checked when the handler has run
GuardedAfterHandler(headerSecret, result, file) ==
    IF requireAdminSecret(headerSecret) # 0
    THEN AdminResult(requireAdminSecret(headerSecret), "Unauthorized", result.offers)
    ELSE result

\* the answer of an admin route: the middleware's, or the handler's
Guarded(headerSecret, result, file) ==
    IF requireAdminSecret(headerSecret) # 0
    THEN AdminResult(requireAdminSecret(headerSecret), "Unauthorized", file)
    ELSE result

AdminRequest(op, req, result) ==
    /\ lastResp' = [handler |-> "admin-offers", op |-> op, status |-> result.status,
                    error |-> result.error, req |-> req]
    /\ offers' = result.offers
    /\ webhookOut' = NoWebhook
    /\ UNCHANGED <<now, THANKYOU_SIG_SECRET, N8N_PAYMENT_WEBHOOK_URL,
                   thankYouContractStore, inflight, redeemed>>

\* POST /api/admin/offers
AdminCreate(bodies) ==
    /\ OutboxEmpty
    /\ \E h \in AdminHeaders, body \in bodies :
        AdminRequest("create", [header |-> h, body |-> body],
                     Guarded(h, CreateOffer(offers, body), offers))

AdminCreateOffer == AdminCreate(CreateBodies)

AdminEnableOffer ==
    /\ OutboxEmpty
    /\ \E h \in AdminHeaders, code \in CodeParams :
        AdminRequest("enable", [header |-> h, code |-> code],
                     Guarded(h, SetOfferActive(offers, code, "true"), offers))

AdminDisableOffer ==
    /\ OutboxEmpty
    /\ \E h \in AdminHeaders, code \in CodeParams :
        AdminRequest("disable", [header |-> h, code |-> code],
                     Guarded(h, SetOfferActive(offers, code, "false"), offers))

AdminDeleteOffer ==
    /\ OutboxEmpty
    /\ \E h \in AdminHeaders, code \in CodeParams :
        AdminRequest("delete", [header |-> h, code |-> code],
                     Guarded(h, DeleteOffer(offers, code), offers))

\* PATCH /api/admin/offers/:code
AdminPatch(patches) ==
    /\ OutboxEmpty
    /\ \E h \in AdminHeaders, code \in CodeParams, patch \in patches :
        AdminRequest("patch", [header |-> h, code |-> code, patch |-> patch],
                     Guarded(h, PatchOffer(offers, code, patch), offers))

AdminPatchOffer == AdminPatch(Patches)

\* (variant) the offers are kept from an earlier read
ReadOffersFileCached(file, readable) == file

\* what loadOffers has to work on: the file, or nothing when it cannot be read
\* or parsed (the catch of loadOffers returns [])
ReadOffersFile(file, readable) == IF readable THEN file ELSE <<>>

\* POST /api/validate-offer
ValidateOffer(bodies) ==
    /\ OutboxEmpty
    /\ \E body \in bodies, readable \in BOOLEAN :
        /\ lastResp' = ValidateOfferResponse(ReadOffersFile(offers, readable), now, body)
        /\ webhookOut' = NoWebhook
        /\ UNCHANGED <<now, THANKYOU_SIG_SECRET, N8N_PAYMENT_WEBHOOK_URL,
                       thankYouContractStore, inflight, redeemed, offers>>

ValidateOfferRequest == ValidateOffer(ValidateBodies)

\* the process with its offers file, new or left by an earlier release
InitOffers ==
    /\ now = StartNow
    /\ THANKYOU_SIG_SECRET = "ty_secret"
    /\ N8N_PAYMENT_WEBHOOK_URL = ""
    /\ thankYouContractStore = EmptyStore
    /\ inflight = [i \in 1 .. MaxInFlight |-> IdleSlot]
    /\ lastResp = NoResp
    /\ webhookOut = NoWebhook
    /\ redeemed = NoQuery
    /\ offers \in {<<>>, LegacyOffersFile}

NextOffers ==
    \/ Flush
    \/ Tick
    \/ AdminCreateOffer
    \/ AdminEnableOffer
    \/ AdminDisableOffer
    \/ AdminDeleteOffer
    \/ AdminPatchOffer
    \/ ValidateOfferRequest

SpecOffers == InitOffers /\ [][NextOffers]_vars

----------------------------------------------------------------------------
(* The admin routes on their own, from no offers at all *)

\* every kind of type, amount (none, negative, in range, beyond every number)
\* and plan list (one plan, only blanks, none) in a create
AmountCreateBodies ==
    {CreateBody("save10", type, amount, Undefined, plans, NoDate, NoDate) :
        type \in {"percent", " Fixed ", "bogus"},
        amount \in {0, 0 - 5, 10, Infinity},
        plans \in {<<"SP_STARTER">>, <<" ">>, <<>>}}
    \cup {CreateBody("save10", "", 10, Undefined, <<"SP_STARTER">>, NoDate, NoDate),
          CreateBody("old5", "PERCENT", 5, "false", <<"ENT_90">>, NoDate, NoDate)}

\* every kind of type and amount in a legacy patch; the plan list emptied
AmountPatches ==
    {Patch(type, amount, Undefined, NoPlansPatch, NoValidityPatch) :
        type \in {"", "fixed", "bogus"}, amount \in {0, 0 - 5, 20, Infinity}}
    \cup {Patch("", 0, Undefined, [defined |-> TRUE, plans |-> <<>>], NoValidityPatch)}

AmountCreateOffer == AdminCreate(AmountCreateBodies)

AmountPatchOffer == AdminPatch(AmountPatches)

InitEmptyOffers ==
    /\ InitOffers
    /\ offers = <<>>

NextEmptyOffers ==
    \/ Flush
    \/ AmountCreateOffer
    \/ AdminEnableOffer
    \/ AdminDisableOffer
    \/ AdminDeleteOffer
    \/ AmountPatchOffer

SpecEmptyOffers == InitEmptyOffers /\ [][NextEmptyOffers]_vars

----------------------------------------------------------------------------
(* An offers file written by hand: its codes are as they were typed *)

StoredCodes == {"SAVE10", "save10", " SAVE10 ", "OLD5"}

HandWrittenOffersFile(code) ==
    <<[code |-> code, type |-> "PERCENT", amount |-> 10, active |-> "true",
       enabled |-> Undefined, appliesTo |-> [defined |-> TRUE, plans |-> <<>>],
       applicablePlans |-> <<>>,
       validity |-> [defined |-> TRUE, start |-> NoDate, end |-> NoDate],
       startAt |-> UndefinedDate, endAt |-> UndefinedDate, used |-> 0]>>

InitCoupons ==
    /\ now = StartNow
    /\ THANKYOU_SIG_SECRET = "ty_secret"
    /\ N8N_PAYMENT_WEBHOOK_URL = ""
    /\ thankYouContractStore = EmptyStore
    /\ inflight = [i \in 1 .. MaxInFlight |-> IdleSlot]
    /\ lastResp = NoResp
    /\ webhookOut = NoWebhook
    /\ redeemed = NoQuery
    /\ offers \in {HandWrittenOffersFile(code) : code \in StoredCodes}

SpecCoupons == InitCoupons /\ [][NextOffers]_vars

----------------------------------------------------------------------------
(* applyOffer on its own: totals and offers of every kind *)

Totals == {0, 1, 15, 150, 1000, 5900, 47200, 100000, 566400}

AppliedOffer(type, amount) == [code |-> "SAVE10", type |-> type, amount |-> amount]

\* percentages below 0, of 0, within and above 100; fixed amounts below 0, of 0,
\* within and above the totals; a type applyOffer does not know; no offer
AppliedOffers ==
    {AppliedOffer("PERCENT", a) : a \in {0 - 5, 0, 10, 33, 100, 150}}
    \cup {AppliedOffer("FIXED", a) : a \in {0 - 5, 0, 1000, 600000}}
    \cup {AppliedOffer("BOGO", 10), NoOffer}

ApplyOfferCall ==
    /\ OutboxEmpty
    /\ \E total \in Totals, offer \in AppliedOffers :
        /\ lastResp' = [handler |-> "applyOffer", total |-> total, offer |-> offer,
                        result |-> applyOffer(total, offer)]
        /\ webhookOut' = NoWebhook
        /\ UNCHANGED <<now, THANKYOU_SIG_SECRET, N8N_PAYMENT_WEBHOOK_URL,
                       thankYouContractStore, inflight, redeemed, offers>>

NextApplyOffer ==
    \/ Flush
    \/ ApplyOfferCall

SpecApplyOffer == InitOffers /\ [][NextApplyOffer]_vars

----------------------------------------------------------------------------
(* CHECKOUT: CREATE RAZORPAY ORDER (enterprise, starter/pro)               *)
(* Each handler is a function from the offers file, the time and the       *)
(* request body to its outcome up to the await of razorpay.orders.create:  *)
(* an error answered at once, or the gateway order it asks for and the     *)
(* response it sends when the gateway has created the order.               *)

NoPricing == [base |-> 0, gst |-> 0, total |-> 0, discount |-> 0, final |-> 0]

CheckoutError(status, error, details) ==
    [status |-> status, error |-> error, details |-> details, planId |-> "",
     billingType |-> "", pricing |-> NoPricing, offerApplied |-> FALSE,
     offer |-> NoOffer, amountInPaise |-> 0, notes |-> NoNotes]

\* offerMeta: { code, type, amount } of the offer applied, else null
OfferMeta(result) ==
    IF result.valid
    THEN [code |-> result.offer.code, type |-> result.offer.type,
          amount |-> result.offer.amount]
    ELSE NoOffer

\* the order asked of the gateway and the success response, from the quote
CheckoutOk(planId, billingType, price, result, notes) ==
    LET calc == applyOffer(price.total, result.offer)
    IN  [status |-> 200, error |-> "", details |-> "", planId |-> planId,
         billingType |-> billingType,
         pricing |-> [base |-> price.base, gst |-> price.gst, total |-> price.total,
                      discount |-> calc.discount, final |-> calc.final],
         offerApplied |-> OfferMeta(result) # NoOffer,
         offer |-> OfferMeta(result),
         amountInPaise |-> calc.final * 100,
         notes |-> [notes EXCEPT !.basePrice = price.base, !.gstAmount = price.gst,
                                 !.discount = calc.discount,
                                 !.finalAmount = calc.final,
                                 !.offerDescription = calc.description]]

\* (billingType || "monthly").toLowerCase(), "subscription" read as "monthly"
NormalizeBillingType(billingType) ==
    LET bt == ToLowerCase(IF billingType = "" THEN "monthly" ELSE billingType)
    IN  IF bt = "subscription" THEN "monthly" ELSE bt

\* pkgValue === "consultation" || Boolean(isConsultation); isConsultation is
\* absent (""), or any value given: every non-empty value is truthy
IsConsultationOrder(pkgValue, isConsultation) ==
    pkgValue = "consultation" \/ isConsultation # ""

\* the billing type the enterprise handler prices and records
EnterpriseBillingType(body) ==
    IF IsConsultationOrder(body.package, body.isConsultation) THEN "one_time"
    ELSE NormalizeBillingType(body.billingType)

\* the status of the outer catch
EnterpriseThrownStatus(pkg) == 500

\* POST /api/create-enterprise-order, up to the await
EnterpriseCheckout(file, nowv, body) ==
    LET pkgValue == body.package
        billingTypeValue == EnterpriseBillingType(body)
        consultation == IsConsultationOrder(pkgValue, body.isConsultation)
        planId == getEnterprisePlanId(pkgValue, billingTypeValue)
    IN  IF body.fullName = "" \/ body.email = "" \/ body.package = ""
        THEN CheckoutError(400, "fullName, email and package are required", "")
        ELSE IF body.gstStatus = "yes" /\ body.company = ""
        THEN CheckoutError(400,
                 "Company / Brand name is required when registered with GST.", "")
        ELSE IF computeEnterprisePriceThrows(pkgValue)
        THEN CheckoutError(EnterpriseThrownStatus(pkgValue),
                 "Server error creating enterprise order.", "Invalid enterprise package")
        ELSE CheckoutOk(planId, billingTypeValue,
                 computeEnterprisePrice(pkgValue, billingTypeValue, body.country),
                 validateOfferForPlan(file, nowv, planId, body.coupon),
                 [NoNotes EXCEPT !.segment = "enterprise",
                                 !.enterprisePackage = pkgValue,
                                 !.billingType = billingTypeValue,
                                 !.isConsultation = IF consultation THEN "yes" ELSE "no",
                                 !.country = body.country,
                                 !.couponCode = body.coupon])

\* plan === "pro" ? "pro" : "starter"
NormalizePlan(plan) == IF plan = "pro" THEN "pro" ELSE "starter"

\* POST /api/create-starterpro-order, up to the await
StarterProCheckout(file, nowv, body) ==
    LET planNormalized == NormalizePlan(body.plan)
        basePlanId == IF planNormalized = "starter" THEN "SP_STARTER" ELSE "SP_PRO"
        listed == IF basePlanId \in DOMAIN STARTER_PRO_PLAN_PRICES
                  THEN STARTER_PRO_PLAN_PRICES[basePlanId] ELSE 0
        bt == NormalizeBillingType(body.billingType)
        base == IF bt = "yearly" THEN YearlyBase(listed) ELSE listed
    IN  IF body.plan = "" THEN CheckoutError(400, "plan is required", "")
        ELSE IF listed = 0 THEN CheckoutError(400, "Invalid plan", "")
        ELSE CheckoutOk(basePlanId, bt,
                 Price(base, IF IsIndia(body.country) THEN Gst(base) ELSE 0),
                 validateOfferForPlan(file, nowv, basePlanId, body.coupon),
                 [NoNotes EXCEPT !.segment = "starterpro", !.plan = planNormalized,
                                 !.billingType = bt, !.country = body.country,
                                 !.couponCode = body.coupon])

----------------------------------------------------------------------------
(* Checkout requests *)

EnterpriseBody(fullName, email, company, gstStatus, pkg, billingType, isConsultation, country, coupon) ==
    [fullName |-> fullName, email |-> email, company |-> company,
     gstStatus |-> gstStatus, package |-> pkg, billingType |-> billingType,
     isConsultation |-> isConsultation, country |-> country, coupon |-> coupon]

BillingTypes == {"", "monthly", "YEARLY", "subscription", "one_time"}

Countries == {" INDIA ", "USA", ""}

Coupons == {"", "SAVE10", "LATER5", "nope"}

\* every package (listed, and "75" which is not), cadence and country; the
\* coupons on a monthly and a yearly order; the consultation flag; then the
\* defective requests
EnterpriseBodies ==
    {EnterpriseBody("Asha", "asha@example.in", "", "", pkg, bt, "", country, "") :
        pkg \in {"60", "90", "120", "consultation", "75"}, bt \in BillingTypes,
        country \in Countries}
    \cup {EnterpriseBody("Asha", "asha@example.in", "", "", pkg, bt, "", country, coupon) :
        pkg \in {"60", "90"}, bt \in {"", "YEARLY"}, country \in {" INDIA ", "USA"},
        coupon \in Coupons}
    \cup {EnterpriseBody("Asha", "asha@example.in", "", "", pkg, bt, "true", " INDIA ", "SAVE10") :
        pkg \in {"90", "75"}, bt \in BillingTypes}
    \cup {EnterpriseBody("", "asha@example.in", "", "", "90", "", "", "", ""),
          EnterpriseBody("Asha", "", "", "", "90", "", "", "", ""),
          EnterpriseBody("Asha", "asha@example.in", "", "", "", "", "", "", ""),
          EnterpriseBody("Asha", "asha@example.in", "", "yes", "90", "", "", "", ""),
          EnterpriseBody("Asha", "asha@example.in", "VVAS", "yes", "90", "", "", " INDIA ", "")}

StarterProBody(plan, billingType, country, coupon) ==
    [plan |-> plan, billingType |-> billingType, country |-> country, coupon |-> coupon]

\* every plan (also none, and "gold" which is not one), cadence and country;
\* the coupons on a monthly and a yearly order
StarterProBodies ==
    {StarterProBody(plan, bt, country, "") :
        plan \in {"", "starter", "pro", "gold"}, bt \in BillingTypes,
        country \in Countries}
    \cup {StarterProBody(plan, bt, " INDIA ", coupon) :
        plan \in {"starter", "pro"}, bt \in {"", "YEARLY"}, coupon \in Coupons}

\* quotes asked of /api/validate-offer: one-time plans, a custom base price
QuoteBodies ==
    {[planId |-> planId, basePrice |-> basePrice, couponCode |-> couponCode] :
        planId \in {"", "PLAN_CALL", "PLAN_60", "ENT_90", "PLAN_X"},
        basePrice \in {0, 25, 0 - 5}, couponCode \in {"", "SAVE10"}}

\* the offers file after the admin has created SAVE10 (1000 off ENT_90) and
\* LATER5 (5 percent off every plan once its window opens)
CheckoutOffersFile ==
    CreateOffer(
        CreateOffer(<<>>, CreateBody("SAVE10", "FIXED", 1000, Undefined,
                                     <<"ENT_90">>, NoDate, NoDate)).offers,
        CreateBody("LATER5", "PERCENT", 5, Undefined, <<"SP_STARTER", "SP_PRO",
                   "ENT_60", "ENT_90", "ENT_120", "ENT_CONSULTATION", "PLAN_60">>,
                   DateAt(WindowOpens), NoDate)).offers

----------------------------------------------------------------------------
(* Checkout actions *)

\* the response of a checkout route
CheckoutResponse(route, order, status, error, orderId, body) ==
    [handler |-> route, status |-> status, error |-> error, details |-> order.details,
     orderId |-> orderId, amount |-> order.pricing.final,
     amountInPaise |-> order.amountInPaise, planId |-> order.planId,
     pricing |-> order.pricing, offerApplied |-> order.offerApplied,
     offer |-> order.offer, req |-> body]

\* a checkout handler up to its await: an error is answered at once; otherwise
\* razorpay.orders.create is called and the request waits for it (readable:
\* whether this request's loadOffers could read the offers file)
CheckoutRequest(route, order, body, readable) ==
    /\ IF order.status # 200
       THEN /\ lastResp' = CheckoutResponse(route, order, order.status, order.error, "", body)
            /\ webhookOut' = NoWebhook
            /\ inflight' = inflight
       ELSE \E i \in Slots :
            /\ inflight[i].pc = "idle"
            /\ inflight' = [inflight EXCEPT ![i] =
                   [pc |-> "orders.create", route |-> route, body |-> body,
                    readable |-> readable, order |-> order]]
            /\ webhookOut' = [event |-> "orders.create", amount |-> order.amountInPaise,
                              currency |-> "INR", notes |-> order.notes]
            /\ lastResp' = NoResp
    /\ UNCHANGED <<now, THANKYOU_SIG_SECRET, N8N_PAYMENT_WEBHOOK_URL,
                   thankYouContractStore, redeemed, offers>>

\* POST /api/create-enterprise-order
CreateEnterpriseOrderRequest ==
    /\ OutboxEmpty
    /\ \E body \in EnterpriseBodies, readable \in BOOLEAN :
        CheckoutRequest("create-enterprise-order",
            EnterpriseCheckout(ReadOffersFile(offers, readable), now, body), body, readable)

\* POST /api/create-starterpro-order
CreateStarterProOrderRequest ==
    /\ OutboxEmpty
    /\ \E body \in StarterProBodies, readable \in BOOLEAN :
        CheckoutRequest("create-starterpro-order",
            StarterProCheckout(ReadOffersFile(offers, readable), now, body), body, readable)

\* the message of a route's catch
ServerError(route) ==
    IF route = "create-enterprise-order" THEN "Server error creating enterprise order."
    ELSE "Server error creating starter/pro order."

\* razorpay.orders.create settles: the order exists and the success response is
\* sent, or the call was rejected and the catch answers 500
OrdersCreateReturn ==
    /\ OutboxEmpty
    /\ \E i \in Slots, ok \in BOOLEAN :
        /\ inflight[i].pc = "orders.create"
        /\ lastResp' =
               IF ok
               THEN CheckoutResponse(inflight[i].route, inflight[i].order, 200, "",
                                     "order_new", inflight[i].body)
               ELSE CheckoutResponse(inflight[i].route,
                        CheckoutError(500, ServerError(inflight[i].route), "gateway"),
                        500, ServerError(inflight[i].route), "", inflight[i].body)
        /\ webhookOut' = NoWebhook
        /\ inflight' = [inflight EXCEPT ![i] = IdleSlot]
        /\ UNCHANGED <<now, THANKYOU_SIG_SECRET, N8N_PAYMENT_WEBHOOK_URL,
                       thankYouContractStore, redeemed, offers>>

QuoteRequest == ValidateOffer(QuoteBodies)

\* the process with the offers the checkout scenarios use, or none
InitCheckout ==
    /\ now = StartNow
    /\ THANKYOU_SIG_SECRET = "ty_secret"
    /\ N8N_PAYMENT_WEBHOOK_URL = ""
    /\ thankYouContractStore = EmptyStore
    /\ inflight = [i \in 1 .. MaxInFlight |-> IdleSlot]
    /\ lastResp = NoResp
    /\ webhookOut = NoWebhook
    /\ redeemed = NoQuery
    /\ offers \in {<<>>, CheckoutOffersFile}

NextCheckout ==
    \/ Flush
    \/ Tick
    \/ AdminEnableOffer
    \/ AdminDisableOffer
    \/ QuoteRequest
    \/ CreateEnterpriseOrderRequest
    \/ CreateStarterProOrderRequest
    \/ OrdersCreateReturn

SpecCheckout == InitCheckout /\ [][NextCheckout]_vars

----------------------------------------------------------------------------
(* Offers with a usage limit.  usageLimit and used are stored with the     *)
(* offer (set on create, normalised on load); no handler reads them again. *)

\* the checkout offers as an operator's file holds them once SAVE10 has been
\* used past its limit and LATER5 has just reached its own
ExhaustedOffersFile ==
    <<[usageLimit |-> 5] @@ [CheckoutOffersFile[1] EXCEPT !.used = 7],
      [usageLimit |-> 3] @@ [CheckoutOffersFile[2] EXCEPT !.used = 3]>>

\* the payment of the order that was created with coupon SAVE10
VerifyCouponOrder ==
    VerifyPayment({Body("o1", "p1", GatewaySignatureOf(<<"o1", "p1">>))})

InitUsage ==
    /\ now = StartNow
    /\ THANKYOU_SIG_SECRET = "ty_secret"
    /\ N8N_PAYMENT_WEBHOOK_URL = "https://n8n/webhook"
    /\ thankYouContractStore = EmptyStore
    /\ inflight = [i \in 1 .. MaxInFlight |-> IdleSlot]
    /\ lastResp = NoResp
    /\ webhookOut = NoWebhook
    /\ redeemed = NoQuery
    /\ offers = ExhaustedOffersFile

NextUsage ==
    \/ Flush
    \/ Tick
    \/ QuoteRequest
    \/ CreateEnterpriseOrderRequest
    \/ CreateStarterProOrderRequest
    \/ OrdersCreateReturn
    \/ VerifyCouponOrder
    \/ PaymentsFetchReturn
    \/ OrdersFetchReturn
    \/ WebhookReturn

SpecUsage == InitUsage /\ [][NextUsage]_vars

----------------------------------------------------------------------------
(* The issued link in the hands of the client.  The response of            *)
(* /verify-payment leaves the process when its handler returns; the client *)
(* keeps the link it carries and follows it later.  The webhook call the   *)
(* handler awaits before answering takes time.                             *)

\* minutes the clock may advance, one at a time, while a webhook call is awaited
MaxWebhookMinutes == 2

\* the response reaches the client, who keeps the link of a success together
\* with the time it was sent at
Deliver ==
    /\ ~OutboxEmpty
    /\ lastResp' = NoResp
    /\ webhookOut' = NoWebhook
    /\ redeemed' = IF lastResp.handler = "verify-payment" /\ lastResp.status = 200
                   THEN [req |-> Query("", lastResp.thank_you.url.order_id,
                                       lastResp.thank_you.url.payment_id,
                                       lastResp.thank_you.url.ts,
                                       lastResp.thank_you.url.sig),
                         at |-> now]
                   ELSE redeemed
    /\ UNCHANGED <<now, THANKYOU_SIG_SECRET, N8N_PAYMENT_WEBHOOK_URL,
                   thankYouContractStore, inflight, offers>>

\* a minute passes while the handler awaits fetch(N8N_PAYMENT_WEBHOOK_URL)
WebhookSlow ==
    /\ OutboxEmpty
    /\ \E i \in Slots : inflight[i].pc = "webhook"
    /\ now < StartNow + MaxWebhookMinutes * Minute
    /\ now' = now + Minute
    /\ UNCHANGED <<THANKYOU_SIG_SECRET, N8N_PAYMENT_WEBHOOK_URL, thankYouContractStore,
                   inflight, lastResp, webhookOut, redeemed, offers>>

\* the client follows the link it holds
FollowIssuedLink ==
    /\ redeemed # NoQuery
    /\ GetThankYouContract({redeemed.req}, FALSE)

InitLink ==
    /\ Init
    /\ THANKYOU_SIG_SECRET # ""

NextLink ==
    \/ Deliver
    \/ Tick
    \/ WebhookSlow
    \/ VerifyPaid
    \/ PaymentsFetchReturn
    \/ OrdersFetchReturn
    \/ WebhookReturn
    \/ FollowIssuedLink
    \/ LookUpLink

SpecLink == InitLink /\ [][NextLink]_vars

----------------------------------------------------------------------------
(* The store key and the canonical signing string, as functions of the     *)
(* identifiers.  Any non-empty string is accepted as order_id and          *)
(* payment_id by the retrieval endpoint (String(req.query.x || "")).       *)

\* identifiers as the gateway issues them, and with the separators of the key in
\* them
KeyIds == {"o1", "p1", "p2", "o1|payment_id=p1", "p1|payment_id=p2"}

\* what the endpoint answers to pair b presenting the signature issued for
\* pair a, while the contract of pair a is stored
CrossAnswer(secret, nowv, a, b) ==
    ThankYouContractResponse(secret, nowv,
        storeThankYouContract(EmptyStore, nowv, a[1], a[2],
                              BuildContract(a[1], a[2], NoNotes)),
        Query("", b[1], b[2], MsLiteral(nowv),
              signThankYouV1(secret, a[1], a[2], MsLiteral(nowv))))

\* makeThankYouKey and the canonical string of signThankYouV1 on two pairs
KeyCall ==
    /\ OutboxEmpty
    /\ \E a \in KeyIds \X KeyIds, b \in KeyIds \X KeyIds :
        /\ lastResp' = [handler |-> "makeThankYouKey", a |-> a, b |-> b,
                        keyA |-> makeThankYouKey(a[1], a[2]),
                        keyB |-> makeThankYouKey(b[1], b[2]),
                        canonicalA |-> CanonicalString(a[1], a[2], MsLiteral(now)),
                        canonicalB |-> CanonicalString(b[1], b[2], MsLiteral(now)),
                        answer |-> CrossAnswer(THANKYOU_SIG_SECRET, now, a, b)]
        /\ webhookOut' = NoWebhook
        /\ UNCHANGED <<now, THANKYOU_SIG_SECRET, N8N_PAYMENT_WEBHOOK_URL,
                       thankYouContractStore, inflight, redeemed, offers>>

NextKeys ==
    \/ Flush
    \/ Tick
    \/ KeyCall

SpecKeys == InitLink /\ [][NextKeys]_vars

----------------------------------------------------------------------------
(* /verify-payment with the pass-through data of the frontend in the body. *)

\* a body with its pass-through fields
ClientBody(pr, amount, currency, plan, meta) ==
    [razorpay_order_id |-> pr[1], razorpay_payment_id |-> pr[2],
     razorpay_signature |-> GatewaySignatureOf(pr), amount |-> amount,
     currency |-> currency, customer |-> [email |-> "a@b.c"], plan |-> plan,
     meta |-> meta]

\* paid pairs with the amounts and plans of their orders, and with others
ClientBodies ==
    {ClientBody(pr, amount, currency, plan, meta) :
        pr \in GatewayPaid, amount \in {0, 100, 56540000}, currency \in {"INR", "USD"},
        plan \in {"starter", "enterprise"}, meta \in {"", "promo"}}

VerifyClientPayment == VerifyPayment(ClientBodies)

NextPassThrough ==
    \/ Flush
    \/ Tick
    \/ VerifyClientPayment
    \/ PaymentsFetchReturn
    \/ OrdersFetchReturn
    \/ WebhookReturn
    \/ LookUpLink

SpecPassThrough == InitRedeem /\ [][NextPassThrough]_vars

----------------------------------------------------------------------------
(* The claims about the thank-you contract mechanism.                      *)
(* A response is in lastResp in the state right after the step of its      *)
(* handler, where now is still the time the handler ran at.                *)

IsGetResp == lastResp.handler = "thank-you-contract"
IsVerifyResp == lastResp.handler = "verify-payment"

FifteenMinutes == 15 * Minute
ThirtyMinutes == 30 * Minute

\* the instant a supplied timestamp names (13 characters or more: milliseconds)
SuppliedTime(ts) == IF Len(ts.txt) >= 13 THEN ts.num ELSE 1000 * ts.num

AllParamsPresent(q) ==
    /\ q.version \in {"", "v1"}
    /\ q.order_id # ""
    /\ q.payment_id # ""
    /\ q.ts.txt # ""
    /\ q.sig.len > 0

Stale(q) == Abs(now - SuppliedTime(q.ts)) > FifteenMinutes

CorrectSig(q) == signThankYouV1(THANKYOU_SIG_SECRET, q.order_id, q.payment_id, q.ts)

KeyOf(q) == makeThankYouKey(q.order_id, q.payment_id)

\* the body names a pair, and carries the gateway's HMAC over order_id|payment_id
PassedGatewayCheck(b) ==
    /\ b.razorpay_order_id # ""
    /\ b.razorpay_payment_id # ""
    /\ b.razorpay_signature # ""
    /\ b.razorpay_signature =
           HexHmac(RAZORPAY_KEY_SECRET, b.razorpay_order_id \o "|" \o b.razorpay_payment_id)

KeyOfBody(b) == makeThankYouKey(b.razorpay_order_id, b.razorpay_payment_id)

\* C1: whenever |now - ts| > 15 minutes the retrieval request fails with
\* EXPIRED_TS (401) and returns no contract, whatever the signature and the store.
C1_FreshnessWindow ==
    (/\ IsGetResp
     /\ THANKYOU_SIG_SECRET # ""
     /\ AllParamsPresent(lastResp.req)
     /\ lastResp.req.ts.finite
     /\ Stale(lastResp.req))
    => (/\ lastResp.status = 401
        /\ lastResp.code = "EXPIRED_TS"
        /\ lastResp.contract = NoContract)

\* a link signed when its contract was stored, presented 16 minutes later with
\* the correct signature while the contract is still in the store
C1_Witness ==
    /\ IsGetResp
    /\ lastResp.code = "EXPIRED_TS"
    /\ lastResp.req.sig = CorrectSig(lastResp.req)
    /\ KeyOf(lastResp.req) \in DOMAIN thankYouContractStore
    /\ thankYouContractStore[KeyOf(lastResp.req)].storedAt = SuppliedTime(lastResp.req.ts)
    /\ now = SuppliedTime(lastResp.req.ts) + 16 * Minute

\* C2: a contract is released only when sig is the signature of exactly the
\* supplied (order_id, payment_id, ts); any other signature of a well-formed,
\* fresh request is answered INVALID_SIGNATURE (401).
C2_SignatureBinding ==
    (IsGetResp /\ THANKYOU_SIG_SECRET # "")
    => (/\ lastResp.contract # NoContract
            => lastResp.req.sig = CorrectSig(lastResp.req)
        /\ (/\ AllParamsPresent(lastResp.req)
            /\ lastResp.req.ts.finite
            /\ ~Stale(lastResp.req)
            /\ lastResp.req.sig # CorrectSig(lastResp.req))
            => (/\ lastResp.status = 401
                /\ lastResp.code = "INVALID_SIGNATURE"
                /\ lastResp.contract = NoContract))

\* the signature issued for (o1, p1, now) presented for another pair whose
\* contract is in the store
C2_Witness ==
    /\ IsGetResp
    /\ lastResp.code = "INVALID_SIGNATURE"
    /\ lastResp.req.sig = signThankYouV1(THANKYOU_SIG_SECRET, "o1", "p1", MsLiteral(now))
    /\ lastResp.req.order_id = "o2"
    /\ KeyOf(lastResp.req) \in DOMAIN thankYouContractStore

\* what the fixed order of checks answers to a query
C3_Expected(q) ==
    IF ~AllParamsPresent(q) THEN <<400, "MISSING_PARAMS">>
    ELSE IF ~q.ts.finite THEN <<400, "INVALID_TS">>
    ELSE IF Stale(q) THEN <<401, "EXPIRED_TS">>
    ELSE IF q.sig # CorrectSig(q) THEN <<401, "INVALID_SIGNATURE">>
    ELSE IF KeyOf(q) \notin DOMAIN thankYouContractStore THEN <<404, "NOT_FOUND">>
    ELSE <<200, "OK">>

\* C3: the checks run in the order missing-params, timestamp-parse, freshness,
\* signature, store lookup; the first that fails decides the answer, with the
\* statuses 400, 400, 401, 401, 404.
C3_CheckOrder ==
    (IsGetResp /\ THANKYOU_SIG_SECRET # "")
    => <<lastResp.status, lastResp.code>> = C3_Expected(lastResp.req)

\* a stale timestamp with a wrong signature is Expired
C3_Witness ==
    /\ IsGetResp
    /\ lastResp.code = "EXPIRED_TS"
    /\ lastResp.req.sig = JunkSig

\* C4: a fresh, correctly signed request whose key the store does not hold is
\* answered NOT_FOUND (404), and NOT_FOUND is answered only to a fresh request
\* whose signature has been verified.
C4_NotFoundAfterSignature ==
    (IsGetResp /\ THANKYOU_SIG_SECRET # "")
    => (/\ (/\ AllParamsPresent(lastResp.req)
            /\ lastResp.req.ts.finite
            /\ ~Stale(lastResp.req)
            /\ lastResp.req.sig = CorrectSig(lastResp.req)
            /\ KeyOf(lastResp.req) \notin DOMAIN thankYouContractStore)
            => (lastResp.status = 404 /\ lastResp.code = "NOT_FOUND")
        /\ lastResp.code = "NOT_FOUND"
            => (/\ lastResp.req.sig = CorrectSig(lastResp.req)
                /\ ~Stale(lastResp.req)))

C4_Witness ==
    /\ IsGetResp
    /\ lastResp.code = "NOT_FOUND"
    /\ lastResp.status = 404
    /\ lastResp.req.sig = CorrectSig(lastResp.req)

\* C5: a store lookup at time t returns the contract stored under the key iff
\* an entry is there and t - storedAt does not exceed 30 minutes.
C5_StoreTtl ==
    [][(/\ lastResp = NoResp
        /\ lastResp'.handler = "thank-you-contract"
        /\ lastResp'.code \in {"OK", "NOT_FOUND"})
       => LET k == KeyOf(lastResp'.req)
              live == /\ k \in DOMAIN thankYouContractStore
                      /\ now - thankYouContractStore[k].storedAt <= ThirtyMinutes
          IN  /\ lastResp'.code = "OK" <=> live
              /\ live => lastResp'.contract = thankYouContractStore[k].contract
              /\ ~live => k \notin DOMAIN thankYouContractStore']_vars

\* a contract returned exactly 30 minutes after it was stored
C5_Witness ==
    /\ IsGetResp
    /\ lastResp.code = "OK"
    /\ now - thankYouContractStore[KeyOf(lastResp.req)].storedAt = ThirtyMinutes

\* C6: with the signing secret unset no signature is ever produced, the
\* retrieval endpoint answers 500 MISCONFIGURED to every request and returns no
\* contract, and /verify-payment returns no ts/sig/url: a request that passes
\* the gateway check (one that does not is answered 400 before any signing) is
\* answered 500.
C6_FailClosed ==
    THANKYOU_SIG_SECRET = ""
    => (/\ IsGetResp => (/\ lastResp.status = 500
                         /\ lastResp.code = "MISCONFIGURED"
                         /\ lastResp.contract = NoContract)
        /\ IsVerifyResp => (/\ lastResp.thank_you = NoThankYou
                            /\ ~lastResp.success
                            /\ PassedGatewayCheck(lastResp.req) => lastResp.status = 500)
        /\ \A i \in Slots : inflight[i].pc # "webhook"
        /\ webhookOut.event = "none")

C6_Witness ==
    /\ THANKYOU_SIG_SECRET = ""
    /\ IsVerifyResp
    /\ PassedGatewayCheck(lastResp.req)
    /\ lastResp.status = 500

\* what holds of every state as far as C7 goes
C7_State ==
    /\ \A i \in Slots : inflight[i].pc # "idle" => PassedGatewayCheck(inflight[i].body)
    /\ (IsVerifyResp /\ ~PassedGatewayCheck(lastResp.req))
        => (/\ lastResp.status = 400
            /\ lastResp.thank_you = NoThankYou)
    /\ webhookOut.event = "dispatch"
        => LET k == makeThankYouKey(webhookOut.razorpay_order_id,
                                    webhookOut.razorpay_payment_id)
           IN  /\ k \in DOMAIN thankYouContractStore
               /\ thankYouContractStore[k].storedAt = now
               /\ \E i \in Slots : /\ inflight[i].pc = "webhook"
                                   /\ KeyOfBody(inflight[i].body) = k

\* what holds of every step as far as C7 goes
C7_Step ==
    /\ \A k \in DOMAIN thankYouContractStore' :
          (\/ k \notin DOMAIN thankYouContractStore
           \/ thankYouContractStore'[k] # thankYouContractStore[k])
          => \E i \in Slots : /\ inflight[i].pc = "orders.fetch"
                              /\ KeyOfBody(inflight[i].body) = k
                              /\ PassedGatewayCheck(inflight[i].body)
    /\ (/\ lastResp = NoResp
        /\ lastResp'.handler = "verify-payment"
        /\ lastResp'.status = 400)
        => (/\ thankYouContractStore' = thankYouContractStore
            /\ inflight' = inflight
            /\ webhookOut' = NoWebhook)

\* C7: a contract enters the store under (order_id, payment_id) only in a step
\* of a /verify-payment request for that pair that passed the gateway signature
\* check; a request with a missing field or an invalid gateway signature is
\* answered 400 and stores, signs and dispatches nothing; the webhook is
\* dispatched only once the contract is stored.
C7_VerifiedBeforeStored == [][C7_State' /\ C7_Step]_vars

C7_Witness ==
    /\ webhookOut.event = "dispatch"
    /\ makeThankYouKey(webhookOut.razorpay_order_id, webhookOut.razorpay_payment_id)
           \in DOMAIN thankYouContractStore

\* C8: when the webhook call fails the handler still answers success with the
\* thank_you fields, and the step leaves the store as it was.
C8_WebhookFailureSwallowed ==
    [][(webhookOut.event # "failed" /\ webhookOut'.event = "failed")
       => (/\ lastResp'.handler = "verify-payment"
           /\ lastResp'.status = 200
           /\ lastResp'.success
           /\ lastResp'.thank_you.kind \in {"enterprise", "starter_pro"}
           /\ lastResp'.thank_you.sig =
                  signThankYouV1(THANKYOU_SIG_SECRET, lastResp'.req.razorpay_order_id,
                      lastResp'.req.razorpay_payment_id, lastResp'.thank_you.ts)
           /\ lastResp'.thank_you.url.sig = lastResp'.thank_you.sig
           /\ lastResp'.thank_you.url.ts = lastResp'.thank_you.ts
           /\ thankYouContractStore' = thankYouContractStore)]_vars

\* the webhook call failed, the request was answered success, and the contract
\* stored before the call is in the store
C8_Witness ==
    /\ webhookOut.event = "failed"
    /\ IsVerifyResp
    /\ lastResp.status = 200
    /\ KeyOfBody(lastResp.req) \in DOMAIN thankYouContractStore

\* C9 as claimed: once a GET has returned the contract, a later GET with the
\* same order_id, payment_id, ts and sig does not return that contract again.
C9_RedeemableOnce == redeemed # NoQuery => ~redeemed.again

\* C9 amended: a lookup does not consume the entry: the GET that returns the
\* contract leaves the entry in the store, and a later GET with the same
\* parameters returns the same contract again while |now - ts| <= 15 minutes
\* and the entry is neither purged nor overwritten.
C9_RedeemableRepeatedly ==
    [][(lastResp = NoResp /\ lastResp'.handler = "thank-you-contract")
       => LET q == lastResp'.req
              k == KeyOf(q)
          IN  /\ lastResp'.status = 200
                  => (/\ k \in DOMAIN thankYouContractStore'
                      /\ k \in DOMAIN thankYouContractStore
                      /\ thankYouContractStore'[k] = thankYouContractStore[k])
              /\ (/\ redeemed # NoQuery
                  /\ q = redeemed.req
                  /\ ~Stale(q)
                  /\ k \in DOMAIN thankYouContractStore
                  /\ now - thankYouContractStore[k].storedAt <= ThirtyMinutes
                  /\ thankYouContractStore[k].contract = redeemed.contract)
                  => (/\ lastResp'.status = 200
                      /\ lastResp'.contract = redeemed.contract)]_vars

\* one link was answered with its contract twice
C9_Witness == redeemed # NoQuery /\ redeemed.again

----------------------------------------------------------------------------
(* The claims about the offers engine *)

IsValidateResp == lastResp.handler = "validate-offer"

\* a stored offer is switched off: by its active flag if it has one, else by
\* the legacy enabled flag if it has one
C10_Disabled(f) ==
    IF f.active # Undefined THEN f.active # "true"
    ELSE IF f.enabled # Undefined THEN f.enabled # "true"
    ELSE FALSE

C10_Start(f) == IF f.validity.defined THEN f.validity.start ELSE f.startAt
C10_End(f) == IF f.validity.defined THEN f.validity.end ELSE f.endAt
C10_PlanList(f) == IF f.appliesTo.defined THEN f.appliesTo.plans ELSE f.applicablePlans

\* the stored offer must not resolve for planId at the present time
C10_Barred(f, planId) ==
    \/ C10_Disabled(f)
    \/ C10_Start(f).kind = "date" /\ now < C10_Start(f).time
    \/ C10_End(f).kind = "date" /\ now > C10_End(f).time
    \/ /\ Len(C10_PlanList(f)) > 0
       /\ planId \notin {C10_PlanList(f)[i] : i \in DOMAIN C10_PlanList(f)}

\* the offer a validation returned is a stored one, and is not barred
C10_State ==
    (IsValidateResp /\ lastResp.offerApplied)
    => (/\ \E i \in DOMAIN offers : offers[i].code = lastResp.offer.code
        /\ \A i \in DOMAIN offers :
              offers[i].code = lastResp.offer.code
              => ~C10_Barred(offers[i], lastResp.req.planId))

\* a disable operation that is answered 200 leaves the offer of that code
\* switched off
C10_DisableStep ==
    (/\ lastResp = NoResp
     /\ lastResp'.handler = "admin-offers"
     /\ lastResp'.op = "disable"
     /\ lastResp'.status = 200)
    => (/\ \E i \in DOMAIN offers' : offers'[i].code = ToUpperCase(lastResp'.req.code)
        /\ \A i \in DOMAIN offers' :
              offers'[i].code = ToUpperCase(lastResp'.req.code)
              => C10_Disabled(offers'[i]))

\* C10: offer resolution never returns an offer that is disabled, or whose
\* validity has not started or has ended at the current time, or whose non-empty
\* plan list does not contain the requested planId, whatever admin operations
\* (create, enable, disable, patch, delete) came before; and a disable operation
\* leaves its offer disabled.
C10_BarredOfferNeverResolves == [][C10_State' /\ C10_DisableStep]_vars

\* the coupon code matches a stored offer that a disable operation switched off
\* and that the plan and the time would admit; the validation applies no offer
C10_Witness ==
    /\ IsValidateResp
    /\ lastResp.status = 200
    /\ ~lastResp.offerApplied
    /\ lastResp.req.couponCode = " save10 "
    /\ \E i \in DOMAIN offers :
          /\ offers[i].code = "SAVE10"
          /\ offers[i].active = "false"
          /\ offers[i].enabled = "false"
          /\ C10_Barred(offers[i], lastResp.req.planId)
          /\ ~C10_Barred([offers[i] EXCEPT !.active = "true"], lastResp.req.planId)

\* trim + upper-case, the normalization of the claim
C11_Normalized(s) == ToUpperCase(Trim(s))

IsApplyOfferResp == lastResp.handler = "applyOffer"

\* C12: for every offer and every total, applyOffer returns 0 <= discount <=
\* total and final = total - discount; a FIXED amount above the total or a
\* PERCENT amount above 100 gives discount = total and final = 0; with no offer
\* the discount is 0 and final = total.
C12_DiscountWithinTotal ==
    IsApplyOfferResp
    => LET total == lastResp.total
           offer == lastResp.offer
           result == lastResp.result
       IN  /\ 0 <= result.discount
           /\ result.discount <= total
           /\ result.final = total - result.discount
           /\ offer = NoOffer => (result.discount = 0 /\ result.final = total)
           /\ (/\ offer # NoOffer
               /\ \/ offer.type = "FIXED" /\ offer.amount > total
                  \/ offer.type = "PERCENT" /\ offer.amount > 100)
               => (result.discount = total /\ result.final = 0)

\* a FIXED amount above a positive total: the discount is the total
C12_Witness ==
    /\ IsApplyOfferResp
    /\ lastResp.offer # NoOffer
    /\ lastResp.offer.type = "FIXED"
    /\ lastResp.total > 0
    /\ lastResp.offer.amount > lastResp.total
    /\ lastResp.result.discount = lastResp.total
    /\ lastResp.result.final = 0

----------------------------------------------------------------------------
(* The claims about pricing and checkout. *)

IsQuoteResp(r) == r.handler = "validate-offer" /\ r.status = 200

CheckoutRoutes == {"create-enterprise-order", "create-starterpro-order"}

IsCheckoutOk(r) == r.handler \in CheckoutRoutes /\ r.status = 200

\* round(0.18 * base) for a base that is not negative
C13_Tax(base) == (18 * base + 50) \div 100

\* the spellings of the domestic country
C13_Domestic(country) ==
    country \in {"india", "India", "INDIA", " india ", " INDIA "}

\* the pricing of a checkout for a buyer in this country
C13_CheckoutPricing(p, country) ==
    /\ p.total = p.base + p.gst
    /\ p.gst >= 0
    /\ p.gst = IF C13_Domestic(country) THEN C13_Tax(p.base) ELSE 0

\* C13: every quote has total = base + tax and tax >= 0. A checkout (enterprise,
\* starter/pro) taxes round(0.18 * base) when the buyer's country is India in any
\* case and with any surrounding blanks, and nothing otherwise, in the order asked
\* of the gateway and in its response; a one-time quote always taxes
\* round(0.18 * base); the quote for PLAN_60 without a coupon is base 40000, tax
\* 7200, total 47200, no offer applied, final 47200.
C13_QuoteArithmetic ==
    /\ IsQuoteResp(lastResp) =>
        /\ lastResp.total = lastResp.base + lastResp.gst
        /\ lastResp.gst >= 0
        /\ lastResp.gst = C13_Tax(lastResp.base)
        /\ (lastResp.req = [planId |-> "PLAN_60", basePrice |-> 0, couponCode |-> ""]
            => /\ lastResp.base = 40000
               /\ lastResp.gst = 7200
               /\ lastResp.total = 47200
               /\ ~lastResp.offerApplied
               /\ lastResp.final = 47200)
    /\ IsCheckoutOk(lastResp) => C13_CheckoutPricing(lastResp.pricing, lastResp.req.country)
    /\ \A i \in Slots :
        inflight[i].pc = "orders.create" =>
            /\ C13_CheckoutPricing(inflight[i].order.pricing, inflight[i].body.country)
            /\ inflight[i].order.notes.basePrice = inflight[i].order.pricing.base
            /\ inflight[i].order.notes.gstAmount = inflight[i].order.pricing.gst

\* the PLAN_60 quote has been answered, after a domestic enterprise order
C13_Witness ==
    /\ IsQuoteResp(lastResp)
    /\ lastResp.req = [planId |-> "PLAN_60", basePrice |-> 0, couponCode |-> ""]
    /\ lastResp.total = 47200
    /\ \E i \in Slots :
        /\ inflight[i].pc = "orders.create"
        /\ inflight[i].body.country = " INDIA "
        /\ inflight[i].order.pricing.gst > 0

\* round(0.8 * 12 * monthlyBase)
C14_Yearly(monthlyBase) == (96 * monthlyBase + 5) \div 10

\* the cadence a request asks for, in any case
C14_AsksYearly(body) == body.billingType \in {"yearly", "Yearly", "YEARLY"}

\* the listed monthly base of the package or tier of an order
C14_MonthlyBase(slot) ==
    IF slot.route = "create-enterprise-order"
    THEN ENTERPRISE_BASE_PRICES[slot.body.package]
    ELSE STARTER_PRO_PLAN_PRICES[slot.order.planId]

\* a consultation: the package of that name, or an order flagged as one
C14_Consultation(slot) ==
    /\ slot.route = "create-enterprise-order"
    /\ slot.body.package = "consultation" \/ slot.body.isConsultation # ""

\* C14 as stated: an order asked for with yearly cadence has base
\* round(0.8 * 12 * monthlyBase), for every enterprise package and every
\* starter/pro tier, and with any other cadence the base is the monthly base.
C14_YearlyEveryPackage ==
    \A i \in Slots :
        inflight[i].pc = "orders.create" =>
            inflight[i].order.pricing.base =
                IF C14_AsksYearly(inflight[i].body)
                THEN C14_Yearly(C14_MonthlyBase(inflight[i]))
                ELSE C14_MonthlyBase(inflight[i])

\* C14, amended: for the packages 60, 90 and 120 (not flagged as a consultation)
\* and both starter/pro tiers, yearly cadence has base
\* round(0.8 * 12 * monthlyBase) and any other cadence the monthly base; a
\* consultation is billed one_time at its listed base whatever cadence is asked.
C14_YearlyBase ==
    \A i \in Slots :
        inflight[i].pc = "orders.create" =>
            IF C14_Consultation(inflight[i])
            THEN /\ inflight[i].order.pricing.base = C14_MonthlyBase(inflight[i])
                 /\ inflight[i].order.billingType = "one_time"
            ELSE inflight[i].order.pricing.base =
                     IF C14_AsksYearly(inflight[i].body)
                     THEN C14_Yearly(C14_MonthlyBase(inflight[i]))
                     ELSE C14_MonthlyBase(inflight[i])

\* a yearly order for package 90 and a yearly order for the pro tier are possible
C14_Witness ==
    \E i \in Slots :
        /\ inflight[i].pc = "orders.create"
        /\ C14_AsksYearly(inflight[i].body)
        /\ ~C14_Consultation(inflight[i])
        /\ inflight[i].order.pricing.base \in {480000, 288000}

\* request i has just reached its call of razorpay.orders.create
C15_OrderAsked(i) == inflight[i].pc = "idle" /\ inflight'[i].pc = "orders.create"

\* the stored offers hold SAVE10 as an active FIXED offer of 1000 for ENT_90
C15_Save10Stored ==
    \E k \in DOMAIN offers :
        /\ offers[k].code = "SAVE10"
        /\ offers[k].type = "FIXED"
        /\ offers[k].amount = 1000
        /\ offers[k].active = "true"
        /\ offers[k].appliesTo.plans = <<"ENT_90">>
        /\ offers[k].validity.start = NoDate
        /\ offers[k].validity.end = NoDate

\* the request of scenario B
C15_ScenarioB(body) ==
    /\ body.package = "90"
    /\ body.billingType \in {"yearly", "YEARLY"}
    /\ body.country \in {"India", " INDIA "}
    /\ body.coupon = "SAVE10"
    /\ body.isConsultation = ""

C15_Quote ==
    [base |-> 480000, gst |-> 86400, total |-> 566400, discount |-> 1000,
     final |-> 565400]

\* C15: an enterprise checkout for package 90, yearly, from India, with coupon
\* SAVE10 stored as an active FIXED offer of 1000 for plan ENT_90, asks the
\* gateway for an order of base 480000, tax 86400, total 566400, discount 1000,
\* final 565400 (56540000 paise) under plan ENT_90 with the offer applied, and
\* answers with the same figures once the order exists.
C15_EnterpriseScenario ==
    [][\A i \in Slots :
        /\ (/\ C15_OrderAsked(i)
            /\ inflight'[i].route = "create-enterprise-order"
            /\ C15_ScenarioB(inflight'[i].body)
            /\ inflight'[i].readable
            /\ C15_Save10Stored)
           => /\ inflight'[i].order.planId = "ENT_90"
              /\ inflight'[i].order.pricing = C15_Quote
              /\ inflight'[i].order.offerApplied
              /\ inflight'[i].order.offer =
                     [code |-> "SAVE10", type |-> "FIXED", amount |-> 1000]
              /\ webhookOut'.event = "orders.create"
              /\ webhookOut'.amount = 56540000
              /\ webhookOut'.notes.discount = 1000
              /\ webhookOut'.notes.finalAmount = 565400
        /\ (inflight[i].pc = "orders.create" /\ inflight'[i].pc = "idle"
            /\ lastResp'.status = 200)
           => /\ lastResp'.pricing = inflight[i].order.pricing
              /\ lastResp'.offerApplied = inflight[i].order.offerApplied
              /\ lastResp'.planId = inflight[i].order.planId
              /\ lastResp'.amountInPaise = inflight[i].order.amountInPaise]_vars

\* the order of scenario B has been created and answered
C15_Witness ==
    /\ IsCheckoutOk(lastResp)
    /\ lastResp.handler = "create-enterprise-order"
    /\ C15_ScenarioB(lastResp.req)
    /\ lastResp.pricing = C15_Quote
    /\ lastResp.offerApplied
    /\ lastResp.orderId # ""

\* the coupon of a request for planId does not resolve against the stored
\* offers now: none given, none stored under its code, or the stored one barred
C16_NoStoredMatch(coupon, planId) ==
    \/ coupon = ""
    \/ \A k \in DOMAIN offers :
          offers[k].code = C11_Normalized(coupon) => C10_Barred(offers[k], planId)

\* nothing but the coupon can be wrong with this checkout request
C16_WellFormed(route, body) ==
    IF route = "create-enterprise-order"
    THEN /\ body.fullName # ""
         /\ body.email # ""
         /\ body.package \in {"60", "90", "120", "consultation"}
         /\ ~(body.gstStatus = "yes" /\ body.company = "")
    ELSE body.plan # ""

\* the order request i has just made carries no discount
C16_Undiscounted(i) ==
    /\ inflight'[i].order.pricing.discount = 0
    /\ inflight'[i].order.pricing.final = inflight'[i].order.pricing.total
    /\ ~inflight'[i].order.offerApplied
    /\ inflight'[i].order.offer = NoOffer
    /\ webhookOut'.event = "orders.create"
    /\ webhookOut'.amount = 100 * inflight'[i].order.pricing.total
    /\ webhookOut'.notes.discount = 0

\* C16: a coupon that does not resolve (absent, empty, unknown, disabled, out of
\* its window, for another plan, or with the offers file empty or unreadable) is
\* never an error: a quote answers 200 with no offer applied and final = total; a
\* checkout request that is otherwise well-formed is never answered with an error
\* before the gateway is called, the order it asks for has discount 0 and final =
\* total, and its success response reports offerApplied = false.
C16_UnresolvedCouponNeverBlocks ==
    [][/\ (lastResp = NoResp /\ IsQuoteResp(lastResp')
           /\ C16_NoStoredMatch(lastResp'.req.couponCode, lastResp'.req.planId))
          => (~lastResp'.offerApplied /\ lastResp'.discount = 0
              /\ lastResp'.final = lastResp'.total)
       /\ (lastResp = NoResp /\ lastResp'.handler \in CheckoutRoutes
           /\ inflight' = inflight)
          => ~C16_WellFormed(lastResp'.handler, lastResp'.req)
       /\ \A i \in Slots :
           /\ (/\ C15_OrderAsked(i)
               /\ \/ ~inflight'[i].readable
                  \/ C16_NoStoredMatch(inflight'[i].body.coupon,
                                       inflight'[i].order.planId))
              => C16_Undiscounted(i)
           /\ (inflight[i].pc = "orders.create" /\ inflight'[i].pc = "idle"
               /\ lastResp'.status = 200 /\ ~inflight[i].order.offerApplied)
              => /\ ~lastResp'.offerApplied
                 /\ lastResp'.offer = NoOffer
                 /\ lastResp'.pricing.discount = 0
                 /\ lastResp'.amount = lastResp'.pricing.total]_vars

\* an order was created and answered without discount for a request whose
\* coupon SAVE10 is stored but switched off
C16_Witness ==
    /\ IsCheckoutOk(lastResp)
    /\ lastResp.req.coupon = "SAVE10"
    /\ lastResp.planId = "ENT_90"
    /\ ~lastResp.offerApplied
    /\ lastResp.orderId # ""
    /\ \E k \in DOMAIN offers : offers[k].code = "SAVE10" /\ C10_Disabled(offers[k])

\* a checkout request with a validation error: a required field missing, a
\* package that is not 60, 90, 120 or consultation, a plan that is not starter
\* or pro
C17_Invalid(route, body) ==
    IF route = "create-enterprise-order"
    THEN \/ body.fullName = ""
         \/ body.email = ""
         \/ body.package \notin {"60", "90", "120", "consultation"}
    ELSE body.plan \notin {"starter", "pro"}

\* C17 as stated: a checkout request with a validation error (unknown enterprise
\* package, invalid starter/pro plan, missing required field) is answered with a
\* 4xx status, and no order is asked of the gateway for it.
C17_ValidationErrorsAre4xx ==
    [][/\ (lastResp = NoResp /\ lastResp'.handler \in CheckoutRoutes
           /\ inflight' = inflight /\ C17_Invalid(lastResp'.handler, lastResp'.req))
          => (lastResp'.status >= 400 /\ lastResp'.status <= 499)
       /\ \A i \in Slots :
           C15_OrderAsked(i) => ~C17_Invalid(inflight'[i].route, inflight'[i].body)]_vars

----------------------------------------------------------------------------
(* The claims about the stored offers. *)

\* the create body breaks a rule of the offer set: no positive amount, a type
\* other than PERCENT or FIXED (in any case, blanks aside), no plan
C18_BreaksRule(body) ==
    \/ body.amount <= 0
    \/ body.type \notin {"percent", "PERCENT", "fixed", "FIXED", "Fixed", " Fixed "}
    \/ \A i \in DOMAIN body.plans : body.plans[i] \in {"", " "}

\* the admin route op has just answered a request made with the admin secret
C18_Answered(op) ==
    /\ lastResp = NoResp
    /\ lastResp'.handler = "admin-offers"
    /\ lastResp'.op = op
    /\ lastResp'.req.header = ADMIN_OFFERS_SECRET

\* C18 as stated: from the empty offer set, after any sequence of create, enable,
\* disable, legacy patch and delete, every stored offer has amount > 0 and type
\* PERCENT or FIXED; the offer a create has written has a plan; a create whose
\* body breaks one of these rules is answered 400 and leaves the stored offers
\* as they were.
C18_StoredOffersWellFormed ==
    [][/\ \A k \in DOMAIN offers' :
            /\ offers'[k].amount > 0
            /\ offers'[k].type \in {"PERCENT", "FIXED"}
       /\ (C18_Answered("create") /\ lastResp'.status = 200)
          => \A k \in DOMAIN offers' :
                offers'[k].code = ToUpperCase(Trim(lastResp'.req.body.code))
                => Len(offers'[k].appliesTo.plans) > 0
       /\ (C18_Answered("create") /\ C18_BreaksRule(lastResp'.req.body))
          => (lastResp'.status = 400 /\ offers' = offers)]_vars

----------------------------------------------------------------------------
(* The claims about the life of a stored contract. *)

\* this step is a store insert: a verification has built and stored its contract
C19_Insert(i) == inflight[i].pc = "orders.fetch" /\ inflight'[i].pc # "orders.fetch"

\* this step is a store lookup: a GET that got as far as getThankYouContract
C19_Lookup ==
    /\ lastResp = NoResp
    /\ lastResp'.handler = "thank-you-contract"
    /\ lastResp'.code \in {"OK", "NOT_FOUND"}

\* C19: immediately after any store insert and any store lookup, on whatever
\* key, the store holds no entry stored more than 30 minutes before that moment.
C19_SweepOnAccess ==
    [][(C19_Lookup \/ \E i \in Slots : C19_Insert(i))
       => \A k \in DOMAIN thankYouContractStore' :
             now' - thankYouContractStore'[k].storedAt <= 30 * Minute]_vars

\* a verification stored its contract at the start and still waits for the
\* webhook; more than 30 minutes later a lookup of its key has found nothing
C19_Witness ==
    \E i \in Slots :
        /\ inflight[i].pc = "webhook"
        /\ inflight[i].ts = MsLiteral(StartNow)
        /\ now - StartNow > 30 * Minute
        /\ lastResp.handler = "thank-you-contract"
        /\ lastResp.code = "NOT_FOUND"
        /\ lastResp.req.order_id = inflight[i].body.razorpay_order_id
        /\ lastResp.req.payment_id = inflight[i].body.razorpay_payment_id
        /\ makeThankYouKey(lastResp.req.order_id, lastResp.req.payment_id)
               \notin DOMAIN thankYouContractStore

\* the keys of every (order_id, payment_id) a request can name
C20_Keys == {makeThankYouKey(o, p) : o \in OrderIds, p \in PaymentIds}

\* this step is a store call for the pair whose key is k
C20_StoreCall(k) ==
    \E i \in Slots :
        /\ C19_Insert(i)
        /\ k = makeThankYouKey(inflight[i].body.razorpay_order_id,
                               inflight[i].body.razorpay_payment_id)

C20_Stored(k) == k \in DOMAIN thankYouContractStore

C20_Expired(k) == now - thankYouContractStore[k].storedAt > 30 * Minute

\* C20: a key becomes stored only by a store call for its own (order_id,
\* payment_id); a stored entry changes only by such a store call, which records
\* the time of the call as its insertion time, or by the purge of an entry older
\* than the TTL; a lookup creates nothing and leaves every unexpired entry as
\* it is.
C20_KeyLifecycle ==
    [][/\ DOMAIN thankYouContractStore' \subseteq C20_Keys
       /\ \A k \in C20_Keys :
           /\ (~C20_Stored(k) /\ C20_Stored(k)') => C20_StoreCall(k)
           /\ (C20_Stored(k) /\ C20_Stored(k)'
               /\ thankYouContractStore'[k] # thankYouContractStore[k])
              => C20_StoreCall(k)
           /\ C20_StoreCall(k)
              => (C20_Stored(k)' /\ thankYouContractStore'[k].storedAt = now')
           /\ (C20_Stored(k) /\ ~C20_Stored(k)') => C20_Expired(k)
           /\ (C19_Lookup /\ C20_Stored(k) /\ ~C20_Expired(k))
              => (C20_Stored(k)' /\ thankYouContractStore'[k] = thankYouContractStore[k])
           /\ (C19_Lookup /\ ~C20_Stored(k)) => ~C20_Stored(k)']_vars

\* a contract stored at the start has been looked up and returned later, and is
\* still in the store as it was inserted
C20_Witness ==
    /\ lastResp.handler = "thank-you-contract"
    /\ lastResp.code = "OK"
    /\ now > StartNow
    /\ C20_Stored(makeThankYouKey(lastResp.req.order_id, lastResp.req.payment_id))
    /\ thankYouContractStore[makeThankYouKey(lastResp.req.order_id,
                                             lastResp.req.payment_id)].storedAt = StartNow
    /\ thankYouContractStore[makeThankYouKey(lastResp.req.order_id,
                                             lastResp.req.payment_id)].contract
           = lastResp.contract

----------------------------------------------------------------------------
(* The claims about concurrent requests and the issued link. *)

\* the store key of the pair a verification in flight is about
C21_KeyOf(slot) ==
    makeThankYouKey(slot.body.razorpay_order_id, slot.body.razorpay_payment_id)

\* the moments of the model
C21_Times == {StartNow + m * Minute : m \in 0 .. MaxElapsedMinutes}

\* request b has inserted its contract (at the time its link carries), has not
\* yet completed, and its entry is still within the TTL
C21_HoldsFreshEntry(b) ==
    /\ inflight[b].pc = "webhook"
    /\ \E t \in C21_Times : inflight[b].ts = MsLiteral(t) /\ now - t <= 30 * Minute

\* this step is an access of another request to a key other than k: a lookup,
\* or the insert of a verification other than b
C21_OtherAccess(b, k) ==
    \/ /\ C19_Lookup
       /\ makeThankYouKey(lastResp'.req.order_id, lastResp'.req.payment_id) # k
    \/ \E a \in Slots \ {b} : C19_Insert(a) /\ C21_KeyOf(inflight[a]) # k

\* C21: with two verifications in flight and lookups in between, in any
\* interleaving: the sweep of another request's access to another key leaves the
\* entry a request has inserted (and that is within its TTL) as it is; an insert
\* leaves its own entry in the store, stored at that moment; and when a
\* verification completes with success within the TTL of its insert, its entry
\* is in the store.
C21_SweepKeepsConcurrentInsert ==
    [][/\ \A b \in Slots :
           /\ (C21_HoldsFreshEntry(b) /\ C21_OtherAccess(b, C21_KeyOf(inflight[b])))
              => /\ C21_KeyOf(inflight[b]) \in DOMAIN thankYouContractStore'
                 /\ thankYouContractStore'[C21_KeyOf(inflight[b])]
                        = thankYouContractStore[C21_KeyOf(inflight[b])]
           /\ C19_Insert(b)
              => /\ C21_KeyOf(inflight[b]) \in DOMAIN thankYouContractStore'
                 /\ thankYouContractStore'[C21_KeyOf(inflight[b])].storedAt = now'
           /\ C21_HoldsFreshEntry(b)' => C20_Stored(C21_KeyOf(inflight[b]))'
       /\ (lastResp'.handler = "verify-payment" /\ lastResp'.status = 200
           /\ \E t \in C21_Times : /\ lastResp'.thank_you.ts = MsLiteral(t)
                                   /\ now' - t <= 30 * Minute)
          => makeThankYouKey(lastResp'.req.razorpay_order_id,
                             lastResp'.req.razorpay_payment_id)
                 \in DOMAIN thankYouContractStore']_vars

\* two verifications of different pairs are in flight, the contracts of both
\* are stored, and they were inserted at different times
C21_Witness ==
    \E a \in Slots, b \in Slots :
        /\ a # b
        /\ inflight[a].pc = "webhook"
        /\ inflight[b].pc = "webhook"
        /\ C21_KeyOf(inflight[a]) # C21_KeyOf(inflight[b])
        /\ C20_Stored(C21_KeyOf(inflight[a]))
        /\ C20_Stored(C21_KeyOf(inflight[b]))
        /\ thankYouContractStore[C21_KeyOf(inflight[a])].storedAt
               < thankYouContractStore[C21_KeyOf(inflight[b])].storedAt

\* the number of digits of a timestamp literal of the model (the padded literal
\* has ten digits and three blanks)
C22_Digits(ts) ==
    IF \E t \in C21_Times : ts = PaddedSecLiteral(t) THEN 10 ELSE Len(ts.txt)

\* the instant a literal counted as n long stands for, in milliseconds
C22_Instant(ts, n) == IF n >= 13 THEN ts.num ELSE ts.num * 1000

\* a retrieval with every parameter present has been answered by a configured
\* server
C22_Answered ==
    /\ lastResp.handler = "thank-you-contract"
    /\ THANKYOU_SIG_SECRET # ""
    /\ lastResp.req.version = ""
    /\ lastResp.req.order_id # ""
    /\ lastResp.req.payment_id # ""
    /\ lastResp.req.ts.txt # ""
    /\ lastResp.req.sig.len > 0

\* the answer when the literal is counted as n long: INVALID_TS (400) for a
\* literal that is no finite number, whatever its signature; otherwise EXPIRED_TS
\* exactly when the instant is more than 15 minutes from now
C22_Rule(n) ==
    IF ~lastResp.req.ts.finite
    THEN lastResp.code = "INVALID_TS" /\ lastResp.status = 400
    ELSE /\ lastResp.code # "INVALID_TS"
         /\ lastResp.code = "EXPIRED_TS"
                <=> Abs(now - C22_Instant(lastResp.req.ts, n)) > 15 * Minute

\* C22 as stated: a ts literal of 13 or more digits is taken as milliseconds, a
\* shorter one is multiplied by 1000 before the freshness check, and a ts that is
\* no finite number is answered INVALID_TS (400) before freshness and signature.
C22_ThirteenDigits == C22_Answered => C22_Rule(C22_Digits(lastResp.req.ts))

\* C22, amended: a ts literal of 13 or more characters (digits or not) is taken
\* as milliseconds, a shorter one is multiplied by 1000 before the freshness
\* check, and a ts that is no finite number is answered INVALID_TS (400) before
\* freshness and signature.
C22_ThirteenCharacters == C22_Answered => C22_Rule(Len(lastResp.req.ts.txt))

\* a link whose ts is the present instant in seconds has passed the freshness
\* check and the signature check
C22_Witness ==
    /\ C22_Answered
    /\ lastResp.req.ts = SecLiteral(now)
    /\ lastResp.code = "NOT_FOUND"

----------------------------------------------------------------------------
(* The claims about what requests leave behind.                            *)

\* the stored offer has been used as often as its limit allows, or more
C23_Exhausted(f) == f.used >= f.usageLimit

\* the stored offer k is the one the coupon names, and its flag, window and plan
\* list admit planId now
C23_Names(k, coupon, planId) ==
    /\ coupon # ""
    /\ offers[k].code = C11_Normalized(coupon)
    /\ ~C10_Barred(offers[k], planId)

\* C23: validate-offer, checkout (enterprise, starter/pro) and verify-payment
\* requests never change a stored offer, so used is never incremented; and a
\* checkout whose coupon names a stored offer that its flag, window and plans
\* admit has that offer applied although its used has reached or passed its
\* usageLimit, in the order asked of the gateway and in the success response.
C23_OffersOnlyRead ==
    [][/\ offers' = offers
       /\ \A k \in DOMAIN offers : offers'[k].used = offers[k].used
       /\ \A i \in Slots, k \in DOMAIN offers :
           /\ (/\ C15_OrderAsked(i)
               /\ inflight'[i].readable
               /\ C23_Names(k, inflight'[i].body.coupon, inflight'[i].order.planId)
               /\ C23_Exhausted(offers[k]))
              => /\ inflight'[i].order.offerApplied
                 /\ inflight'[i].order.offer.code = offers[k].code
                 /\ inflight'[i].order.pricing.discount > 0
                 /\ webhookOut'.notes.discount = inflight'[i].order.pricing.discount
           /\ (inflight[i].pc = "orders.create" /\ inflight'[i].pc = "idle"
               /\ lastResp'.status = 200 /\ inflight[i].order.offerApplied)
              => /\ lastResp'.offerApplied
                 /\ lastResp'.offer = inflight[i].order.offer]_vars

\* an order was created with SAVE10 applied while the stored SAVE10 stands at 7
\* uses of 5 allowed
C23_Witness ==
    /\ IsCheckoutOk(lastResp)
    /\ lastResp.req.coupon = "SAVE10"
    /\ lastResp.offerApplied
    /\ lastResp.offer.code = "SAVE10"
    /\ lastResp.pricing.discount = 1000
    /\ lastResp.orderId # ""
    /\ \E k \in DOMAIN offers :
          /\ offers[k].code = "SAVE10"
          /\ offers[k].used = 7
          /\ offers[k].usageLimit = 5

\* the GET of this step is the client's, with the link it was given
C24_Followed ==
    /\ lastResp = NoResp
    /\ lastResp'.handler = "thank-you-contract"
    /\ redeemed # NoQuery
    /\ lastResp'.req = redeemed.req

\* the key of the pair the client's link names
C24_Key == makeThankYouKey(redeemed.req.order_id, redeemed.req.payment_id)

\* the GET of this step is answered with the contract stored for the pair
C24_ReturnsStored ==
    /\ lastResp'.status = 200
    /\ C24_Key \in DOMAIN thankYouContractStore'
    /\ lastResp'.contract = thankYouContractStore'[C24_Key].contract

\* C24 as stated, T being the time the success response was sent: a GET with the
\* order_id, payment_id, ts and sig a successful /verify-payment returned (no
\* version parameter), made up to T + 15 minutes, returns the contract stored for
\* the pair.
C24_RoundTripFromResponse ==
    [][(C24_Followed /\ now <= redeemed.at + FifteenMinutes) => C24_ReturnsStored]_vars

\* C24, T being the instant the returned ts names (the handler takes it right
\* after it stores the contract, before it awaits the webhook call): a GET with
\* the order_id, payment_id, ts and sig a successful /verify-payment returned (no
\* version parameter), made up to 15 minutes after that instant, returns the
\* contract stored for the pair - never NotFound, BadSignature, MissingParams or
\* Expired - whatever inserts, lookups and purges for other keys come between.
C24_RoundTripFromTs ==
    [][(C24_Followed /\ now <= redeemed.req.ts.num + FifteenMinutes)
        => C24_ReturnsStored]_vars

\* the client got its contract exactly 15 minutes after the instant of ts, with a
\* link whose response was held back by the webhook call, after a contract for
\* another pair was stored in between
C24_Witness ==
    /\ IsGetResp
    /\ lastResp.status = 200
    /\ redeemed # NoQuery
    /\ lastResp.req = redeemed.req
    /\ now = redeemed.req.ts.num + FifteenMinutes
    /\ redeemed.at > redeemed.req.ts.num
    /\ \E k \in DOMAIN thankYouContractStore :
          /\ k # C24_Key
          /\ thankYouContractStore[k].storedAt > redeemed.req.ts.num

\* C25 as stated: a /verify-payment request that ends in an error response
\* leaves the contract store unchanged; when the gateway signature is valid but
\* the signing secret is absent, the request answers 500 and no contract for
\* (order_id, payment_id) has been inserted.
C25_ErrorLeavesStoreUnchanged ==
    [][(/\ lastResp = NoResp
        /\ lastResp'.handler = "verify-payment"
        /\ lastResp'.status # 200)
       => /\ thankYouContractStore' = thankYouContractStore
          /\ (THANKYOU_SIG_SECRET = "" /\ GatewaySignatureValid(lastResp'.req))
             => /\ lastResp'.status = 500
                /\ makeThankYouKey(lastResp'.req.razorpay_order_id,
                                   lastResp'.req.razorpay_payment_id)
                       \notin DOMAIN thankYouContractStore']_vars

\* C26 as stated: the store key and the canonical signing string are injective
\* in the identifiers: two different (order_id, payment_id) pairs of non-empty
\* strings never have the same store key nor, with the same ts, the same
\* canonical string, and the signature and contract of one pair are never
\* accepted and returned under another pair.
C26_KeysInjective ==
    (lastResp.handler = "makeThankYouKey" /\ lastResp.a # lastResp.b)
    => /\ lastResp.keyA # lastResp.keyB
       /\ lastResp.canonicalA # lastResp.canonicalB
       /\ lastResp.answer.status # 200

\* request i has just built and stored its contract and dispatched the webhook
C27_Stored(i) == inflight[i].pc = "orders.fetch" /\ inflight'[i].pc = "webhook"

\* C27: the contract /verify-payment stores is a function of the order and
\* payment ids and of the order notes fetched from the gateway only: whatever
\* amount, currency, customer, plan and meta the request carried, the contract it
\* stores is the one a request with the same ids and the same gateway notes but
\* any other pass-through fields stores, and its pricing is that of the notes.
C27_PassThroughIgnored ==
    [][\A i \in Slots :
        C27_Stored(i)
        => LET b == inflight[i].body
               k == makeThankYouKey(b.razorpay_order_id, b.razorpay_payment_id)
               notes == webhookOut'.razorpay_order_notes
           IN  /\ k \in DOMAIN thankYouContractStore'
               /\ \A other \in ClientBodies :
                     (/\ other.razorpay_order_id = b.razorpay_order_id
                      /\ other.razorpay_payment_id = b.razorpay_payment_id)
                     => thankYouContractStore'[k].contract = ContractOf(other, notes)
               /\ thankYouContractStore'[k].contract.pricing.final = notes.finalAmount
               /\ webhookOut'.passThrough.amount = b.amount]_vars

\* the contract of order o1 was stored with final 565400 from the gateway notes
\* for a request that sent amount 100 in USD under plan starter
C27_Witness ==
    /\ webhookOut.event = "dispatch"
    /\ webhookOut.razorpay_order_id = "o1"
    /\ webhookOut.passThrough.amount = 100
    /\ webhookOut.passThrough.currency = "USD"
    /\ webhookOut.passThrough.plan = "starter"
    /\ makeThankYouKey("o1", "p1") \in DOMAIN thankYouContractStore
    /\ thankYouContractStore[makeThankYouKey("o1", "p1")].contract.kind = "enterprise"
    /\ thankYouContractStore[makeThankYouKey("o1", "p1")].contract.pricing.final = 565400

\* request i has just resumed after razorpay.orders.fetch settled
C28_Resumed(i) == inflight[i].pc = "orders.fetch" /\ inflight'[i].pc # "orders.fetch"

\* the contract stored for the request of slot i in this step
C28_Contract(i) ==
    thankYouContractStore'[makeThankYouKey(inflight[i].body.razorpay_order_id,
                                           inflight[i].body.razorpay_payment_id)].contract

\* the contract of a request whose order notes are missing
C28_Blank(c) ==
    /\ c.kind = "starter_pro"
    /\ c.pricing.base = 0
    /\ c.pricing.gst = 0
    /\ c.pricing.discount = 0
    /\ c.pricing.final = 0

\* the request of slot i goes on to a success response with a signed link
C28_GoesOn(i) ==
    /\ inflight'[i].pc = "webhook"
    /\ lastResp' = NoResp
    /\ inflight'[i].sig =
           signThankYouV1(THANKYOU_SIG_SECRET, inflight[i].body.razorpay_order_id,
                          inflight[i].body.razorpay_payment_id, inflight'[i].ts)

\* the success response carries the link signed before the webhook call
C28_Answered ==
    \A i \in Slots :
        (inflight[i].pc = "webhook" /\ inflight'[i].pc = "idle")
        => /\ lastResp'.status = 200
           /\ lastResp'.success
           /\ lastResp'.thank_you.sig = inflight[i].sig
           /\ lastResp'.thank_you.kind = inflight[i].kind

\* C28 as stated: when the order fetch or the payment fetch fails after a valid
\* gateway signature, the handler still answers success with a signed link and
\* stores a contract of kind starter_pro with base, gst, discount and final 0.
C28_AnyFetchFailureBlanks ==
    [][/\ C28_Answered
       /\ \A i \in Slots :
           (/\ C28_Resumed(i)
            /\ \/ webhookOut'.order_details.id = ""
               \/ inflight[i].paymentDetails.id = "")
           => (C28_GoesOn(i) /\ C28_Blank(C28_Contract(i)))]_vars

\* C28: with the signing secret configured, a failure of the payment fetch or of
\* the order fetch after a valid gateway signature is swallowed: the handler
\* stores a contract and answers success with a signed link; when the order
\* fetch failed the contract has kind starter_pro and base, gst, discount and
\* final 0; when only the payment fetch failed it is the contract of the order
\* notes.
C28_FetchFailureSwallowed ==
    [][/\ C28_Answered
       /\ \A i \in Slots :
           /\ (/\ C28_Resumed(i)
               /\ \/ webhookOut'.order_details.id = ""
                  \/ inflight[i].paymentDetails.id = "")
              => C28_GoesOn(i)
           /\ (C28_Resumed(i) /\ webhookOut'.order_details.id = "")
              => C28_Blank(C28_Contract(i))
           /\ (/\ C28_Resumed(i)
               /\ webhookOut'.order_details.id # ""
               /\ inflight[i].paymentDetails.id = "")
              => C28_Contract(i) =
                     BuildContract(inflight[i].body.razorpay_order_id,
                                   inflight[i].body.razorpay_payment_id,
                                   GatewayOrderNotes(inflight[i].body.razorpay_order_id))]_vars

\* the enterprise order o1 was verified while the gateway could not be reached:
\* success was answered with a signed link of kind starter_pro, and the stored
\* contract has no amounts
C28_Witness ==
    /\ IsVerifyResp
    /\ lastResp.status = 200
    /\ lastResp.req.razorpay_order_id = "o1"
    /\ lastResp.thank_you.kind = "starter_pro"
    /\ lastResp.thank_you.sig =
           signThankYouV1(THANKYOU_SIG_SECRET, "o1", "p1", lastResp.thank_you.ts)
    /\ makeThankYouKey("o1", "p1") \in DOMAIN thankYouContractStore
    /\ C28_Blank(thankYouContractStore[makeThankYouKey("o1", "p1")].contract)

----------------------------------------------------------------------------
(* The claims about the admin operations.                                  *)

\* plan ids of every family, and one no price list knows
C29_PlanIds == {"SP_STARTER", "SP_PRO", "ENT_60", "ENT_90", "PLAN_CALL", "PLAN_X"}

\* this step is a legacy PATCH, with the admin secret, that names the stored
\* offer k and carries appliesTo.plans = []
C29_PlansEmptied(k) ==
    /\ lastResp = NoResp
    /\ lastResp'.handler = "admin-offers"
    /\ lastResp'.op = "patch"
    /\ lastResp'.req.header = ADMIN_OFFERS_SECRET
    /\ ToUpperCase(lastResp'.req.code) = offers[k].code
    /\ lastResp'.req.patch.appliesTo.defined
    /\ lastResp'.req.patch.appliesTo.plans = <<>>

\* the stored offer f resolves for every plan id and is applied
C29_ResolvesEverywhere(file, f) ==
    \A planId \in C29_PlanIds :
        /\ validateOfferForPlan(file, now, planId, f.code).valid
        /\ validateOfferForPlan(file, now, planId, f.code).offer.code = f.code
        /\ applyOffer(1000, validateOfferForPlan(file, now, planId, f.code).offer).discount > 0

\* C29: the legacy PATCH accepts appliesTo.plans = [] for a stored offer and
\* stores the empty list; an offer created for one plan and patched so resolves,
\* while it is active (and within its window), for every plan id, the plans it
\* was never created for included.
C29_EmptyPlansLiftRestriction ==
    [][\A k \in DOMAIN offers :
        C29_PlansEmptied(k)
        => /\ lastResp'.status = 200
           /\ k \in DOMAIN offers'
           /\ offers'[k].code = offers[k].code
           /\ offers'[k].appliesTo.defined
           /\ offers'[k].appliesTo.plans = <<>>
           /\ (~C10_Barred(offers'[k], "PLAN_X") /\ offers'[k].amount > 0)
              => C29_ResolvesEverywhere(offers', offers'[k])]_vars

\* SAVE10, which can only be created for SP_STARTER here, has just been patched
\* with plans = [] and now resolves for ENT_90 and for a plan id nobody sells
C29_Witness ==
    /\ lastResp.handler = "admin-offers"
    /\ lastResp.op = "patch"
    /\ lastResp.status = 200
    /\ lastResp.req.code = "save10"
    /\ lastResp.req.patch.appliesTo.defined
    /\ \E k \in DOMAIN offers :
          /\ offers[k].code = "SAVE10"
          /\ offers[k].appliesTo.plans = <<>>
          /\ offers[k].active = "true"
          /\ validateOfferForPlan(offers, now, "ENT_90", "save10").valid
          /\ validateOfferForPlan(offers, now, "PLAN_X", "save10").offer.code = "SAVE10"

\* this step is an admin request
C30_AdminStep == lastResp = NoResp /\ lastResp'.handler = "admin-offers"

\* the code of the request names no stored offer
C30_NotStored ==
    \A k \in DOMAIN offers : offers[k].code # ToUpperCase(lastResp'.req.code)

====
